---------------------------- MODULE Spec2Model ----------------------------
(***************************************************************************)
(* The document retrieval and caching pipeline of the chatbot repository:  *)
(*   - the OCR extraction cache, extract_text_with_ocr and load_pdf of     *)
(*     document_loader.py,                                                 *)
(*   - the folder loaders of document_loader.py and                        *)
(*     document_loader_with_ocr.py,                                        *)
(*   - SimpleRetriever of retriever.py (TF-IDF index, index cache, hybrid  *)
(*     search with fallback rounds),                                       *)
(*   - ChatbotCLI of cli_chatbot.py (initialize, refresh, ask).            *)
(* Each subsystem has its own specification (SpecCache, SpecOcr, SpecPdf   *)
(* and SpecPages, SpecLoad, SpecRetr and SpecScenario, SpecCli; SpecStore  *)
(* for both caches under storage faults) over the shared variables; a      *)
(* specification leaves the variables of the other subsystems unchanged.   *)
(***************************************************************************)
EXTENDS Integers, Sequences, FiniteSets, TLC

VARIABLES
  fileBytes,    \* source file -> the byte string it holds (0: no such file)
  cacheDir,     \* the "cache" directory: "present", "missing" or "blocked"
  ocrCache,     \* cache path -> the entry file at that path
  loadResult,   \* the last load_from_cache call and what it gave
  folder,       \* the data folder: its files in directory-listing order
  loaded,       \* the last load_documents_from_folder* call and its result
  indexCache,   \* cache key -> the pickled index files under that key
  retriever,    \* the SimpleRetriever object (or none / construction raised)
  answer,       \* the last retrieve_relevant_chunks call and what it gave
  ocr,          \* the extract_text_with_ocr call in progress (or idle)
  extracted,    \* the last finished extract_text_with_ocr call and its result
  pdf,          \* the last load_pdf call: the pages it met and what it did
  cli,          \* the ChatbotCLI object: its documents and its retriever
  asked         \* the last ChatbotCLI.ask_question call

vars == <<fileBytes, cacheDir, ocrCache, loadResult, folder, loaded,
          indexCache, retriever, answer, ocr, extracted, pdf, cli, asked>>

cacheVars == <<fileBytes, cacheDir, ocrCache, loadResult>>
loadVars  == <<folder, loaded>>
retrVars  == <<indexCache, retriever, answer>>
ocrVars   == <<ocr, extracted, pdf>>
cliVars   == <<cli, asked>>

(***************************************************************************)
(* Python values shared by the subsystems.                                 *)
(***************************************************************************)
None == <<"None">>

Min(a, b) == IF a <= b THEN a ELSE b
Max(a, b) == IF a >= b THEN a ELSE b

(***************************************************************************)
(*                     PART 1: THE OCR EXTRACTION CACHE                    *)
(***************************************************************************)

\* Number of distinct byte strings a source file may hold (numbered 1..).
MaxContents == 2

ByteStrings == 1 .. MaxContents

\* Source files.  Two of them share a base name in different directories.
Files == { [dir |-> "data",   stem |-> "doc", ext |-> ".pdf"],
           [dir |-> "backup", stem |-> "doc", ext |-> ".pdf"] }

\* The text an OCR pass over byte string b produces.
OcrText(b) == <<"text", b>>

Texts == { OcrText(b) : b \in ByteStrings }

\* hashlib.md5 over the whole byte stream: a function of the bytes alone,
\* taken to be collision free on the byte strings of the model.
Md5(bytes) == <<"md5", bytes>>

FileExists(f) == fileBytes[f] > 0

\* get_file_hash: raises when the file cannot be opened.
get_file_hash(f) ==
  IF FileExists(f) THEN [raised |-> FALSE, value |-> Md5(fileBytes[f])]
                   ELSE [raised |-> TRUE,  value |-> None]

\* The path get_cache_path computes: cache/<stem>_ocr_cache.json.
CachePathOf(f) == <<"cache", f.stem \o "_ocr_cache.json">>

CachePaths == { CachePathOf(f) : f \in Files }

\* get_cache_path: creates the cache directory when it is missing and raises
\* when it cannot be created.  Gives the path and the directory state after.
get_cache_path(f) ==
  CASE cacheDir = "present" -> [raised |-> FALSE, dir |-> "present", path |-> CachePathOf(f)]
    [] cacheDir = "missing" -> [raised |-> FALSE, dir |-> "present", path |-> CachePathOf(f)]
    [] cacheDir = "blocked" -> [raised |-> TRUE,  dir |-> "blocked", path |-> None]

\* Entry files.  "absent": no file; "garbage": not parseable as JSON;
\* "array": JSON that is not an object; "object": a JSON object with the
\* given fields.  origin is history: the byte string the saved file held
\* when save_to_cache hashed it (0 once the entry was damaged from outside).
Absent  == [kind |-> "absent"]
Garbage == [kind |-> "garbage"]
Array   == [kind |-> "array"]
Object(fields, origin) == [kind |-> "object", fields |-> fields, origin |-> origin]

\* dict.get(key) on the fields of an object entry.
DictGet(fields, key) == IF key \in DOMAIN fields THEN fields[key] ELSE None

\* The body of load_from_cache after get_cache_path, given the entry file.
LoadEntryNoHashCheck(f, entry) ==
  IF entry.kind = "absent" THEN None
  ELSE IF entry.kind \in {"garbage", "array"} THEN None
  ELSE DictGet(entry.fields, "content")

LoadEntry(f, entry) ==
  IF entry.kind = "absent" THEN None                      \* os.path.exists
  ELSE IF entry.kind = "garbage" THEN None                \* json.load raises
  ELSE IF get_file_hash(f).raised THEN None               \* open raises
  ELSE IF entry.kind = "array" THEN None                  \* .get raises
  ELSE IF DictGet(entry.fields, "file_hash") = get_file_hash(f).value
       THEN DictGet(entry.fields, "content")
       ELSE None

\* load_from_cache(file_path): what the call gives and the directory after.
load_from_cache(f) ==
  LET p == get_cache_path(f) IN
  IF p.raised
    THEN [outcome |-> "raised", value |-> None, dir |-> p.dir]
    ELSE [outcome |-> "returned",
          value |-> LoadEntry(f, IF cacheDir = "present" THEN ocrCache[p.path] ELSE Absent),
          dir |-> p.dir]

\* A file is written (created or modified) with byte string b.
WriteFile(f, b) ==
  /\ fileBytes' = [fileBytes EXCEPT ![f] = b]
  /\ UNCHANGED <<cacheDir, ocrCache, loadResult, loadVars, retrVars, ocrVars, cliVars>>

\* A file is deleted.
DeleteFile(f) ==
  /\ FileExists(f)
  /\ fileBytes' = [fileBytes EXCEPT ![f] = 0]
  /\ UNCHANGED <<cacheDir, ocrCache, loadResult, loadVars, retrVars, ocrVars, cliVars>>

\* save_to_cache as it would be if it left an existing entry file alone.
SaveToCacheKeepExisting(f, content) ==
  IF get_cache_path(f).raised
    THEN [raised |-> TRUE, dir |-> get_cache_path(f).dir, cache |-> ocrCache]
  ELSE IF get_file_hash(f).raised
         \/ (cacheDir = "present" /\ ocrCache[CachePathOf(f)].kind # "absent")
    THEN [raised |-> FALSE, dir |-> get_cache_path(f).dir, cache |-> ocrCache]
  ELSE [raised |-> FALSE, dir |-> get_cache_path(f).dir,
        cache |-> [ocrCache EXCEPT ![CachePathOf(f)] =
                     Object([file_hash |-> get_file_hash(f).value,
                             content |-> content], fileBytes[f])]]

\* save_to_cache(file_path, content): whether it raised, the directory and
\* the entries after.  get_cache_path is called before the try block, so
\* its exception leaves the function; a failure to hash or to write is
\* printed.  The hash is taken over the bytes the file holds now.
\* cached_at (the mtime) is advisory and no code reads it: it is not kept.
save_to_cache(f, content) ==
  IF get_cache_path(f).raised
    THEN [raised |-> TRUE, dir |-> get_cache_path(f).dir, cache |-> ocrCache]
  ELSE IF get_file_hash(f).raised
    THEN [raised |-> FALSE, dir |-> get_cache_path(f).dir, cache |-> ocrCache]
  ELSE [raised |-> FALSE, dir |-> get_cache_path(f).dir,
        cache |-> [ocrCache EXCEPT ![CachePathOf(f)] =
                     Object([file_hash |-> get_file_hash(f).value,
                             content |-> content], fileBytes[f])]]

\* save_to_cache(file_path, content) is called.
SaveToCache(f, content) ==
  /\ cacheDir' = save_to_cache(f, content).dir
  /\ ocrCache' = save_to_cache(f, content).cache
  /\ UNCHANGED <<fileBytes, loadResult, loadVars, retrVars, ocrVars, cliVars>>

\* load_from_cache(file_path) is called.
LoadFromCache(f) ==
  LET r == load_from_cache(f) IN
  /\ cacheDir' = r.dir
  /\ loadResult' = [file |-> f, outcome |-> r.outcome, value |-> r.value]
  /\ UNCHANGED <<fileBytes, ocrCache, loadVars, retrVars, ocrVars, cliVars>>

\* The ways an entry file gets damaged from outside the program: truncated
\* or overwritten with non-JSON, replaced by a JSON array, or a field lost.
Damaged(entry) ==
  {Garbage, Array} \cup
  (IF entry.kind = "object"
     THEN { Object([k \in (DOMAIN entry.fields) \ {drop} |-> entry.fields[k]], 0) :
              drop \in DOMAIN entry.fields }
     ELSE {})

DamageEntry(p) ==
  /\ cacheDir = "present"
  /\ ocrCache[p].kind # "absent"
  /\ \E e \in Damaged(ocrCache[p]) : ocrCache' = [ocrCache EXCEPT ![p] = e]
  /\ UNCHANGED <<fileBytes, cacheDir, loadResult, loadVars, retrVars, ocrVars, cliVars>>

\* The cache directory is removed with all its entries; it can then be
\* created again ("missing") or not ("blocked": read-only working directory).
RemoveCacheDir(s) ==
  /\ cacheDir' = s
  /\ ocrCache' = [p \in CachePaths |-> Absent]
  /\ indexCache' = <<>>
  /\ UNCHANGED <<fileBytes, loadResult, loadVars, retriever, answer, ocrVars, cliVars>>

NoCall == [file |-> None, outcome |-> "none", value |-> None]

\* No SimpleRetriever was constructed yet; no retrieval was asked of it.
NoRetriever == [state |-> "none"]
NoAnswer == [state |-> "none"]

\* No extract_text_with_ocr call is in progress; none has finished yet.
Idle == [state |-> "idle"]
NotExtracted == [file |-> None, outcome |-> "none", value |-> None, ran |-> FALSE]

\* ChatbotCLI.__init__: no documents, no retriever.  No question asked yet.
NewCli == [phase |-> "constructed", documents |-> <<>>, retriever |-> NoRetriever]
NotAsked == [state |-> "none"]
NoPdf == [state |-> "none"]

\* The strings extract_text_with_ocr returns instead of text.
Message(kind, f) == <<"message", kind, f.stem \o f.ext>>

\* A finished extract_text_with_ocr call.  ran: the call entered the OCR
\* processing block (it did not return from the availability test or from
\* the cache).
Finished(f, outcome, value, ran) ==
  [file |-> f, outcome |-> outcome, value |-> value, ran |-> ran]

\* extract_text_with_ocr after fitz.open: the pages are being recognised
\* from the bytes the document was opened with.
Running(f, bytes) == [state |-> "running", file |-> f, read |-> bytes]

\* The OCR pages loop and what follows it, as it would be if the text were
\* cached whatever the loop produced.
OcrAndSaveAlways(f, read, pages) ==
  IF pages = "raises"
    THEN [value |-> Message("OCR processing failed", f),
          dir |-> save_to_cache(f, Message("OCR processing failed", f)).dir,
          cache |-> save_to_cache(f, Message("OCR processing failed", f)).cache]
  ELSE IF pages = "no_text"
    THEN [value |-> Message("OCR found no readable text", f),
          dir |-> save_to_cache(f, Message("OCR found no readable text", f)).dir,
          cache |-> save_to_cache(f, Message("OCR found no readable text", f)).cache]
  ELSE IF ~FileExists(f) \/ save_to_cache(f, OcrText(read)).raised
    THEN [value |-> Message("OCR processing failed", f),
          dir |-> save_to_cache(f, OcrText(read)).dir, cache |-> ocrCache]
  ELSE [value |-> OcrText(read),
        dir |-> save_to_cache(f, OcrText(read)).dir,
        cache |-> save_to_cache(f, OcrText(read)).cache]

\* The OCR pages loop of extract_text_with_ocr and what follows it.
\* pages: what the loop produced ("raises": an exception left the loop or
\* doc.close(); "no_text": no page gave non-blank text; "text": the text of
\* the bytes read).  With text, the file is opened again for its page count
\* and save_to_cache is called, both inside the try block.
ocr_and_save(f, read, pages) ==
  IF pages = "raises"
    THEN [value |-> Message("OCR processing failed", f),
          dir |-> cacheDir, cache |-> ocrCache]
  ELSE IF pages = "no_text"
    THEN [value |-> Message("OCR found no readable text", f),
          dir |-> cacheDir, cache |-> ocrCache]
  ELSE IF ~FileExists(f)                                \* fitz.open raises
    THEN [value |-> Message("OCR processing failed", f),
          dir |-> cacheDir, cache |-> ocrCache]
  ELSE IF save_to_cache(f, OcrText(read)).raised        \* caught at "except"
    THEN [value |-> Message("OCR processing failed", f),
          dir |-> save_to_cache(f, OcrText(read)).dir, cache |-> ocrCache]
  ELSE [value |-> OcrText(read),
        dir |-> save_to_cache(f, OcrText(read)).dir,
        cache |-> save_to_cache(f, OcrText(read)).cache]

\* extract_text_with_ocr(pdf_path) is called and runs up to fitz.open.
\* available: OCR_AVAILABLE of the running process.  The cache is consulted
\* before the try block; "if cached_content" takes None as a miss.
CallExtractTextWithOcr(f, available) ==
  /\ ocr = Idle
  /\ IF ~available
       THEN /\ extracted' = Finished(f, "returned", Message("OCR not available", f), FALSE)
            /\ UNCHANGED <<cacheDir, ocr>>
       ELSE /\ cacheDir' = load_from_cache(f).dir
            /\ IF load_from_cache(f).outcome = "raised"
                 THEN /\ extracted' = Finished(f, "raised", None, FALSE)
                      /\ ocr' = ocr
               ELSE IF load_from_cache(f).value # None
                 THEN /\ extracted' = Finished(f, "returned", load_from_cache(f).value, FALSE)
                      /\ ocr' = ocr
               ELSE IF ~FileExists(f)                   \* fitz.open raises
                 THEN /\ extracted' = Finished(f, "returned", Message("OCR processing failed", f), TRUE)
                      /\ ocr' = ocr
               ELSE /\ ocr' = Running(f, fileBytes[f])
                    /\ extracted' = extracted
  /\ UNCHANGED <<fileBytes, ocrCache, loadResult, loadVars, retrVars, cliVars>>

\* The call made on its own (process_pdf_with_custom_pages, a script).
ExtractTextWithOcr(f, available) ==
  CallExtractTextWithOcr(f, available) /\ UNCHANGED pdf

\* The call in progress recognises the pages, saves and returns.
OcrPages(pages) ==
  /\ ocr.state = "running"
  /\ ocr' = Idle
  /\ extracted' = Finished(ocr.file, "returned", ocr_and_save(ocr.file, ocr.read, pages).value, TRUE)
  /\ cacheDir' = ocr_and_save(ocr.file, ocr.read, pages).dir
  /\ ocrCache' = ocr_and_save(ocr.file, ocr.read, pages).cache
  /\ UNCHANGED <<fileBytes, loadResult, loadVars, retrVars, pdf, cliVars>>

(***************************************************************************)
(* load_pdf (src/document_loader.py 238-283).  A PDF is the sequence of    *)
(* what page.extract_text() does on each of its pages: "text" (text that   *)
(* is not blank), "blank" (empty or white space) or "raises".              *)
(***************************************************************************)
\* Most pages a PDF of the model has.
MaxPages == 6

PageKinds == {"text", "blank", "raises"}

Pdfs == UNION { [1 .. n -> PageKinds] : n \in 0 .. MaxPages }

\* Pages looked at before the decision: range(min(5, len(pdf_reader.pages))).
SamplePages == 5

Sampled(pages) == 1 .. Min(SamplePages, Len(pages))

\* The count as it would be if every page of the document were looked at.
WithTextAnywhere(pages) == { i \in DOMAIN pages : pages[i] = "text" }

\* The pages counted in pages_with_text (251-263); an exception of a
\* sampled page is caught and the page counts as without text.
WithText(pages) == { i \in Sampled(pages) : pages[i] = "text" }

\* The pages whose text is in the returned string, in order: the sampled
\* pages with text (256), then of pdf_reader.pages[5:] every page whose
\* extraction did not raise (268-272).
RECURSIVE Appended(_, _)
Appended(pages, i) ==
  IF i > Len(pages) THEN <<>>
  ELSE IF (i <= SamplePages /\ pages[i] = "text") \/ (i > SamplePages /\ pages[i] # "raises")
    THEN <<i>> \o Appended(pages, i + 1)
    ELSE Appended(pages, i + 1)

\* What load_pdf did on a file whose reader gave these pages.  opened:
\* open() and PdfReader() succeeded.  tried: the pages extract_text was
\* called on directly.
load_pdf(f, opened, pages) ==
  IF ~opened
    THEN [state |-> "called", file |-> f, opened |-> FALSE, pages |-> <<>>,
          decision |-> "failed", tried |-> {}, appended |-> <<>>]
  ELSE IF WithText(pages) # {}
    THEN [state |-> "called", file |-> f, opened |-> TRUE, pages |-> pages,
          decision |-> "direct", tried |-> DOMAIN pages, appended |-> Appended(pages, 1)]
  ELSE [state |-> "called", file |-> f, opened |-> TRUE, pages |-> pages,
        decision |-> "ocr", tried |-> Sampled(pages), appended |-> <<>>]

\* load_pdf(file_path) is called.  reader: whether PdfReader accepts the
\* file.  With the decision for OCR the call goes on into
\* extract_text_with_ocr(file_path, max_pages=215), up to fitz.open.
LoadPdf(f, reader, pages, available) ==
  /\ pdf = NoPdf
  /\ ocr = Idle
  /\ extracted = NotExtracted
  /\ pdf' = load_pdf(f, FileExists(f) /\ reader = "ok", pages)
  /\ IF pdf'.decision = "ocr"
       THEN CallExtractTextWithOcr(f, available)
       ELSE UNCHANGED <<ocr, extracted, cacheVars, loadVars, retrVars, cliVars>>

\* The result of the call is taken; the next call can be made.
TakePdf ==
  /\ pdf # NoPdf
  /\ ocr = Idle
  /\ pdf' = NoPdf
  /\ extracted' = NotExtracted
  /\ UNCHANGED <<ocr, cacheVars, loadVars, retrVars, cliVars>>

(***************************************************************************)
(* extract_text_with_ocr page by page (159-237).  A scan is what the OCR   *)
(* of each page of the document does in one pass: "text" (recognised text  *)
(* that is not blank), "blank" or "raises" (get_pixmap, Image.open or      *)
(* image_to_string raises).                                                *)
(***************************************************************************)
\* Most pages a scanned document of the model has.
MaxScanPages == 3

Scans == UNION { [1 .. n -> PageKinds] : n \in 0 .. MaxScanPages }

\* max_pages of the signature and of the call in load_pdf.
DefaultMaxPages == 215

\* The page limits asked for.
PageLimits == {1, 2, DefaultMaxPages}

\* range(total_pages) with total_pages = min(len(doc), max_pages)   (188-191)
Processed(scan, max_pages) == 1 .. Min(Len(scan), max_pages)

\* The pages whose text is appended to extracted_text (208-210); the
\* exception of a page is printed and the loop goes on (212-213).
Recognised(scan, max_pages) == { i \in Processed(scan, max_pages) : scan[i] = "text" }

\* full_text: the text of the recognised pages of the bytes read, with the
\* line "Pages processed: successful_pages/total_pages" (218-224).
PagesText(read, recognised, total_pages) == <<"pages", read, recognised, total_pages>>

\* A lookup that never finds an entry.
NoCacheLookup(f, max_pages) ==
  [outcome |-> load_from_cache(f).outcome, value |-> None, dir |-> load_from_cache(f).dir]

\* cached_content = load_from_cache(pdf_path)   (165): max_pages is not
\* part of the lookup.
cache_lookup(f, max_pages) == load_from_cache(f)

\* The try block from the page loop on (186-237), with the cache directory
\* as the lookup left it.
ocr_pages_and_save(f, read, recognised, total_pages, dir) ==
  IF recognised = {}
    THEN [outcome |-> "returned", value |-> Message("OCR found no readable text", f),
          ran |-> TRUE, dir |-> dir, cache |-> ocrCache]
  ELSE IF save_to_cache(f, PagesText(read, recognised, total_pages)).raised
    THEN [outcome |-> "returned", value |-> Message("OCR processing failed", f), ran |-> TRUE,
          dir |-> save_to_cache(f, PagesText(read, recognised, total_pages)).dir,
          cache |-> ocrCache]
  ELSE [outcome |-> "returned", value |-> PagesText(read, recognised, total_pages), ran |-> TRUE,
        dir |-> save_to_cache(f, PagesText(read, recognised, total_pages)).dir,
        cache |-> save_to_cache(f, PagesText(read, recognised, total_pages)).cache]

\* After the lookup (166-237).
AfterLookup(f, max_pages, scan, cached) ==
  IF cached.outcome = "raised"
    THEN [outcome |-> "raised", value |-> None, ran |-> FALSE,
          dir |-> cached.dir, cache |-> ocrCache]
  ELSE IF cached.value # None
    THEN [outcome |-> "returned", value |-> cached.value, ran |-> FALSE,
          dir |-> cached.dir, cache |-> ocrCache]
  ELSE IF ~FileExists(f)                                     \* fitz.open raises
    THEN [outcome |-> "returned", value |-> Message("OCR processing failed", f), ran |-> TRUE,
          dir |-> cached.dir, cache |-> ocrCache]
  ELSE ocr_pages_and_save(f, fileBytes[f], Recognised(scan, max_pages),
                          Min(Len(scan), max_pages), cached.dir)

\* extract_text_with_ocr(pdf_path, max_pages) with OCR available, run from
\* call to return on a document whose pages scan as given.
extract_text_with_ocr(f, max_pages, scan) ==
  AfterLookup(f, max_pages, scan, cache_lookup(f, max_pages))

\* The finished call with what it was asked and what the pages did.
FinishedPages(f, max_pages, scan, result) ==
  [file |-> f, outcome |-> result.outcome, value |-> result.value, ran |-> result.ran,
   max_pages |-> max_pages, scan |-> scan, wrote |-> result.cache # ocrCache]

ExtractPages(f, max_pages, scan) ==
  /\ ocr = Idle
  /\ extracted = NotExtracted
  /\ extracted' = FinishedPages(f, max_pages, scan, extract_text_with_ocr(f, max_pages, scan))
  /\ cacheDir' = extract_text_with_ocr(f, max_pages, scan).dir
  /\ ocrCache' = extract_text_with_ocr(f, max_pages, scan).cache
  /\ UNCHANGED <<fileBytes, loadResult, ocr, pdf, loadVars, retrVars, cliVars>>

\* The process is interrupted inside the page loop (KeyboardInterrupt is
\* not an Exception, a kill is nothing at all): the call does not return
\* and nothing of it is kept.
ExtractPagesInterrupted(f, max_pages) ==
  /\ ocr = Idle
  /\ extracted = NotExtracted
  /\ cache_lookup(f, max_pages).outcome = "returned"
  /\ cache_lookup(f, max_pages).value = None
  /\ FileExists(f)
  /\ extracted' = [file |-> f, outcome |-> "interrupted", value |-> None, ran |-> TRUE,
                   max_pages |-> max_pages, scan |-> <<>>, wrote |-> FALSE]
  /\ cacheDir' = cache_lookup(f, max_pages).dir
  /\ UNCHANGED <<fileBytes, ocrCache, loadResult, ocr, pdf, loadVars, retrVars, cliVars>>

\* The result of the call is taken; the next call can be made.
TakePages ==
  /\ ocr = Idle
  /\ extracted # NotExtracted
  /\ extracted' = NotExtracted
  /\ UNCHANGED <<ocr, pdf, cacheVars, loadVars, retrVars, cliVars>>

\* The state before anything ran: the files exist, nothing is cached, the
\* data folder is not there, no retriever was built.
Init ==
  /\ fileBytes = [f \in Files |-> 1]
  /\ cacheDir = "missing"
  /\ ocrCache = [p \in CachePaths |-> Absent]
  /\ loadResult = NoCall
  /\ folder = [exists |-> FALSE, files |-> <<>>]
  /\ loaded = [loader |-> "none", found |-> 0, documents |-> <<>>]
  /\ indexCache = <<>>
  /\ retriever = NoRetriever
  /\ answer = NoAnswer
  /\ ocr = Idle
  /\ extracted = NotExtracted
  /\ pdf = NoPdf
  /\ cli = NewCli
  /\ asked = NotAsked

NextCache ==
  \/ \E f \in Files, b \in ByteStrings : WriteFile(f, b)
  \/ \E f \in Files : DeleteFile(f)
  \/ \E f \in Files, t \in Texts : SaveToCache(f, t)
  \/ \E f \in Files : LoadFromCache(f)
  \/ \E p \in CachePaths : DamageEntry(p)
  \/ \E s \in {"missing", "blocked"} : RemoveCacheDir(s)


SpecCache == Init /\ [][NextCache]_vars

\* extract_text_with_ocr calls, one at a time, while files are written and
\* deleted and the cache directory is damaged or removed from outside.
NextOcr ==
  \/ \E f \in Files, b \in ByteStrings : WriteFile(f, b)
  \/ \E f \in Files : DeleteFile(f)
  \/ \E f \in Files, available \in BOOLEAN : ExtractTextWithOcr(f, available)
  \/ \E pages \in {"text", "no_text", "raises"} : OcrPages(pages)
  \/ \E p \in CachePaths : DamageEntry(p)
  \/ \E s \in {"missing", "blocked"} : RemoveCacheDir(s)

SpecOcr == Init /\ [][NextOcr]_vars

\* load_pdf calls on one file, one at a time, each with the OCR pass it
\* starts, while the file is deleted and written again.
PdfFiles == { f \in Files : f.dir = "data" }

NextPdf ==
  \/ \E f \in PdfFiles, reader \in {"ok", "raises"}, pages \in Pdfs, available \in BOOLEAN :
       LoadPdf(f, reader, pages, available)
  \/ \E pages \in {"text", "no_text", "raises"} : OcrPages(pages)
  \/ TakePdf
  \/ \E f \in PdfFiles : DeleteFile(f)
  \/ \E f \in PdfFiles : WriteFile(f, 1)

SpecPdf == Init /\ [][NextPdf]_vars

\* extract_text_with_ocr calls with page limits on one file, each run from
\* call to return, while the file is rewritten and the cache directory is
\* removed.
NextPages ==
  \/ \E f \in PdfFiles, max_pages \in PageLimits, scan \in Scans : ExtractPages(f, max_pages, scan)
  \/ \E f \in PdfFiles, max_pages \in PageLimits : ExtractPagesInterrupted(f, max_pages)
  \/ TakePages
  \/ \E f \in PdfFiles, b \in ByteStrings : WriteFile(f, b)
  \/ \E f \in PdfFiles : DeleteFile(f)
  \/ \E s \in {"missing", "blocked"} : RemoveCacheDir(s)

SpecPages == Init /\ [][NextPages]_vars

(***************************************************************************)
(*                       PART 2: THE FOLDER LOADERS                        *)
(***************************************************************************)

\* Largest number of files the data folder holds.
MaxFiles == 3

SupportedExts == <<".pdf", ".docx", ".txt">>

\* What extracting a file does.  A PDF: load_pdf returns extracted (or OCR)
\* text, or catches its own failure and returns a message naming it.  A DOCX
\* or TXT: the text, only whitespace, or load_docx / load_txt raises.
FileKinds ==
  { [ext |-> ".pdf",  behaves |-> b] : b \in {"text", "failed"} } \cup
  { [ext |-> e, behaves |-> b] : e \in {".docx", ".txt"}, b \in {"text", "blank", "raises"} } \cup
  { [ext |-> ".png", behaves |-> "text"] }

\* glob.glob(folder/*<ext>) : the files of the listing with that extension.
Glob(files, ext) == SelectSeq(files, LAMBDA f : f.ext = ext)

\* all_files: one glob per pattern, in the order of the patterns.
AllFiles(files) ==
  Glob(files, SupportedExts[1]) \o Glob(files, SupportedExts[2]) \o Glob(files, SupportedExts[3])

\* load_pdf / load_docx / load_txt on one file: raised, or the text.
Extract(f) ==
  CASE f.behaves = "text"   -> [raised |-> FALSE, content |-> [kind |-> "extracted", file |-> f.name, blank |-> FALSE]]
    [] f.behaves = "failed" -> [raised |-> FALSE, content |-> [kind |-> "failure_message", file |-> f.name, blank |-> FALSE]]
    [] f.behaves = "blank"  -> [raised |-> FALSE, content |-> [kind |-> "extracted", file |-> f.name, blank |-> TRUE]]
    [] f.behaves = "raises" -> [raised |-> TRUE,  content |-> None]

Document(f, content) ==
  [file_name |-> f.name, file_path |-> <<"data", f.name>>, content |-> content, file_type |-> f.ext]

Placeholder(f, kind) == [kind |-> kind, file |-> f.name, blank |-> FALSE]

\* One pass of the loop of load_documents_from_folder_with_ocr over a file:
\* the except branch appends an error document.
StepWithOcr(documents, f) ==
  LET x == Extract(f) IN
  IF x.raised THEN Append(documents, Document(f, Placeholder(f, "error")))
  ELSE IF ~x.content.blank THEN Append(documents, Document(f, x.content))
  ELSE Append(documents, Document(f, Placeholder(f, "placeholder")))

\* The loop body as it would be without the "if content.strip()" test.
StepPlainKeepsBlank(documents, f) ==
  IF Extract(f).raised THEN documents
  ELSE Append(documents, Document(f, Extract(f).content))

\* One pass of the loop of load_documents_from_folder over a file: the
\* except branch only prints.
StepPlain(documents, f) ==
  LET x == Extract(f) IN
  IF x.raised THEN documents
  ELSE IF ~x.content.blank THEN Append(documents, Document(f, x.content))
  ELSE Append(documents, Document(f, Placeholder(f, "placeholder")))

RECURSIVE LoopPlain(_, _)
LoopPlain(documents, files) ==
  IF files = <<>> THEN documents
  ELSE LoopPlain(StepPlain(documents, Head(files)), Tail(files))

RECURSIVE LoopWithOcr(_, _)
LoopWithOcr(documents, files) ==
  IF files = <<>> THEN documents
  ELSE LoopWithOcr(StepWithOcr(documents, Head(files)), Tail(files))

\* load_documents_from_folder (document_loader.py).
load_documents_from_folder ==
  IF ~folder.exists THEN [found |-> 0, documents |-> <<>>]
  ELSE [found |-> Len(AllFiles(folder.files)),
        documents |-> LoopPlain(<<>>, AllFiles(folder.files))]

\* load_documents_from_folder_with_ocr (document_loader_with_ocr.py).
load_documents_from_folder_with_ocr ==
  IF ~folder.exists THEN [found |-> 0, documents |-> <<>>]
  ELSE [found |-> Len(AllFiles(folder.files)),
        documents |-> LoopWithOcr(<<>>, AllFiles(folder.files))]

\* The data folder is created.
MakeFolder ==
  /\ ~folder.exists
  /\ folder' = [folder EXCEPT !.exists = TRUE]
  /\ UNCHANGED <<loaded, cacheVars, retrVars, ocrVars, cliVars>>

\* A file is put into the data folder; the i-th file is named i.
PutFile(k) ==
  /\ folder.exists
  /\ Len(folder.files) < MaxFiles
  /\ folder' = [folder EXCEPT !.files =
        Append(@, [name |-> <<Len(folder.files) + 1, k.ext>>, ext |-> k.ext, behaves |-> k.behaves])]
  /\ UNCHANGED <<loaded, cacheVars, retrVars, ocrVars, cliVars>>

LoadDocumentsFromFolder ==
  /\ loaded' = [loader |-> "plain", found |-> load_documents_from_folder.found,
                documents |-> load_documents_from_folder.documents]
  /\ UNCHANGED <<folder, cacheVars, retrVars, ocrVars, cliVars>>

LoadDocumentsFromFolderWithOcr ==
  /\ loaded' = [loader |-> "with_ocr", found |-> load_documents_from_folder_with_ocr.found,
                documents |-> load_documents_from_folder_with_ocr.documents]
  /\ UNCHANGED <<folder, cacheVars, retrVars, ocrVars, cliVars>>

NextLoad ==
  \/ MakeFolder
  \/ \E k \in FileKinds : PutFile(k)
  \/ LoadDocumentsFromFolder
  \/ LoadDocumentsFromFolderWithOcr

SpecLoad == Init /\ [][NextLoad]_vars

(***************************************************************************)
(*                PART 3: SimpleRetriever (retriever.py)                   *)
(*                                                                         *)
(* Text is a sequence of one-character strings, so that lower(), the       *)
(* substring test, the regular expressions and the tokenizer act on        *)
(* characters as the Python code does.                                     *)
(***************************************************************************)

UpperCase == <<"A", "B", "C", "D", "E", "F", "G", "H", "I", "J", "K", "L", "M",
               "N", "O", "P", "Q", "R", "S", "T", "U", "V", "W", "X", "Y", "Z">>
LowerCase == <<"a", "b", "c", "d", "e", "f", "g", "h", "i", "j", "k", "l", "m",
               "n", "o", "p", "q", "r", "s", "t", "u", "v", "w", "x", "y", "z">>
Digits == {"0", "1", "2", "3", "4", "5", "6", "7", "8", "9"}

Range(f) == { f[i] : i \in DOMAIN f }

UpperSet == Range(UpperCase)
LowerOf == [c \in UpperSet |-> LowerCase[CHOOSE i \in DOMAIN UpperCase : UpperCase[i] = c]]

\* str.lower() on one character, and on a string.
LowerChar(c) == IF c \in UpperSet THEN LowerOf[c] ELSE c

Lower(str) == [i \in 1 .. Len(str) |-> LowerChar(str[i])]

\* \w and \s of the regular expressions (ASCII).
WordChars == Range(UpperCase) \cup Range(LowerCase) \cup Digits \cup {"_"}
SpaceChars == {" ", "\n", "\t"}
IsWordChar(c) == c \in WordChars
IsSpace(c) == c \in SpaceChars

\* Python's  term in content  on strings.
Contains(term, content) ==
  \E i \in 0 .. (Len(content) - Len(term)) :
     SubSeq(content, i + 1, i + Len(term)) = term

\* The maximal runs of \w characters of a string, in order: what str.split()
\* gives once every character outside \w and \s is replaced by a space, and
\* what the token pattern \b\w\w+\b gives among the runs of 2 or more.
RECURSIVE Runs(_, _, _, _)
Runs(str, i, cur, acc) ==
  IF i > Len(str) THEN (IF cur = <<>> THEN acc ELSE Append(acc, cur))
  ELSE IF IsWordChar(str[i]) THEN Runs(str, i + 1, Append(cur, str[i]), acc)
  ELSE Runs(str, i + 1, <<>>, IF cur = <<>> THEN acc ELSE Append(acc, cur))

WordRuns(str) == Runs(str, 1, <<>>, <<>>)

\* ' '.join(words)
RECURSIVE Join(_)
Join(words) ==
  IF words = <<>> THEN <<>>
  ELSE IF Len(words) = 1 THEN words[1]
  ELSE words[1] \o <<" ">> \o Join(Tail(words))

\* ''.join(contents)
RECURSIVE Concat(_)
Concat(strs) == IF strs = <<>> THEN <<>> ELSE Head(strs) \o Concat(Tail(strs))

(***************************************************************************)
(* extract_key_terms (retriever.py 128-141)                                *)
(***************************************************************************)
\* The interrogatives alone: a list that forgets the articles.
QuestionWordsOnly == <<<<"w", "h", "a", "t">>,
                       <<"i", "s">>,
                       <<"a", "r", "e">>,
                       <<"h", "o", "w">>,
                       <<"w", "h", "e", "n">>,
                       <<"w", "h", "e", "r", "e">>,
                       <<"w", "h", "y">>,
                       <<"w", "h", "o">>,
                       <<"w", "h", "i", "c", "h">>>>

\* question_words of extract_key_terms (132).
question_words == <<<<"w", "h", "a", "t">>,
                    <<"i", "s">>,
                    <<"a", "r", "e">>,
                    <<"h", "o", "w">>,
                    <<"w", "h", "e", "n">>,
                    <<"w", "h", "e", "r", "e">>,
                    <<"w", "h", "y">>,
                    <<"w", "h", "o">>,
                    <<"w", "h", "i", "c", "h">>,
                    <<"t", "h", "e">>,
                    <<"a">>,
                    <<"a", "n">>>>

\* Length a word must exceed to be a key term.
ShortWordLen == 2

\* Key terms taken with the list that forgets the articles.
KeyTermsKeepingArticles(query_text) ==
  Join(SelectSeq(WordRuns(Lower(query_text)),
                 LAMBDA word : word \notin Range(QuestionWordsOnly) /\ Len(word) > ShortWordLen))

extract_key_terms(query_text) ==
  Join(SelectSeq(WordRuns(Lower(query_text)),
                 LAMBDA word : word \notin Range(question_words) /\ Len(word) > ShortWordLen))

(***************************************************************************)
(* The date patterns of _search_with_query (retriever.py 203-205)          *)
(***************************************************************************)
MonthNames == <<<<"j", "a", "n", "u", "a", "r", "y">>,
                <<"f", "e", "b", "r", "u", "a", "r", "y">>,
                <<"m", "a", "r", "c", "h">>,
                <<"a", "p", "r", "i", "l">>,
                <<"m", "a", "y">>,
                <<"j", "u", "n", "e">>,
                <<"j", "u", "l", "y">>,
                <<"a", "u", "g", "u", "s", "t">>,
                <<"s", "e", "p", "t", "e", "m", "b", "e", "r">>,
                <<"o", "c", "t", "o", "b", "e", "r">>,
                <<"n", "o", "v", "e", "m", "b", "e", "r">>,
                <<"d", "e", "c", "e", "m", "b", "e", "r">>>>

IsDigitAt(str, i) == i >= 1 /\ i <= Len(str) /\ str[i] \in Digits
IsWordAt(str, i)  == i >= 1 /\ i <= Len(str) /\ IsWordChar(str[i])
IsSpaceAt(str, i) == i >= 1 /\ i <= Len(str) /\ IsSpace(str[i])
IsDateSepAt(str, i) == i >= 1 /\ i <= Len(str) /\ str[i] \in {"/", "-"}

\* \b between the characters at positions i and i + 1.
Boundary(str, i) == IsWordAt(str, i) # IsWordAt(str, i + 1)

DigitsAt(str, from, n) == \A j \in from .. (from + n - 1) : IsDigitAt(str, j)

StartsWithAt(str, from, word) ==
  /\ from + Len(word) - 1 <= Len(str)
  /\ SubSeq(str, from, from + Len(word) - 1) = word

\* The spans <<first, last>> each pattern matches.  The \b anchors and the
\* fixed digit counts leave no two matches of one pattern overlapping, so the
\* matches are what re.findall returns.
\* \b(?:january|...|december)\s+\d{4}\b
MonthYearSpans(str) ==
  { sp \in UNION { { <<a, e>> : e \in (a + 7) .. Len(str) } :
                   a \in { x \in 1 .. Len(str) :
                             /\ Boundary(str, x - 1)
                             /\ \E m \in DOMAIN MonthNames : StartsWithAt(str, x, MonthNames[m]) } } :
      /\ \E m \in DOMAIN MonthNames :
           /\ StartsWithAt(str, sp[1], MonthNames[m])
           /\ sp[2] - 4 >= sp[1] + Len(MonthNames[m])
           /\ \A j \in (sp[1] + Len(MonthNames[m])) .. (sp[2] - 4) : IsSpaceAt(str, j)
      /\ DigitsAt(str, sp[2] - 3, 4)
      /\ Boundary(str, sp[2]) }

\* \b\d{1,2}[/-]\d{4}\b
ShortLongSpans(str) ==
  { <<x[1], x[1] + x[2] + 4>> :
      x \in { y \in (1 .. Len(str)) \X (1 .. 2) :
                /\ IsDigitAt(str, y[1])
                /\ Boundary(str, y[1] - 1)
                /\ DigitsAt(str, y[1], y[2])
                /\ IsDateSepAt(str, y[1] + y[2])
                /\ DigitsAt(str, y[1] + y[2] + 1, 4)
                /\ Boundary(str, y[1] + y[2] + 4) } }

\* \b\d{4}[/-]\d{1,2}\b
LongShortSpans(str) ==
  { <<x[1], x[1] + 4 + x[2]>> :
      x \in { y \in (1 .. Len(str)) \X (1 .. 2) :
                /\ IsDigitAt(str, y[1])
                /\ Boundary(str, y[1] - 1)
                /\ DigitsAt(str, y[1], 4)
                /\ IsDateSepAt(str, y[1] + 4)
                /\ DigitsAt(str, y[1] + 5, y[2])
                /\ Boundary(str, y[1] + 4 + y[2]) } }

date_patterns(query_lower) ==
  { SubSeq(query_lower, sp[1], sp[2]) :
      sp \in MonthYearSpans(query_lower) \cup ShortLongSpans(query_lower)
               \cup LongShortSpans(query_lower) }

\* search_terms, as a set: the order of the terms does not reach the score.
search_terms(query_lower) == {query_lower} \cup date_patterns(query_lower)

(***************************************************************************)
(* TfidfVectorizer(stop_words='english', max_features=1000) and            *)
(* cosine_similarity (scikit-learn), in integer arithmetic.                *)
(*                                                                         *)
(* A term weight is tf * idf with idf in tenths; the L2 normalisation of   *)
(* fit_transform / transform is folded into the cosine, which it does not  *)
(* change.  A cosine is kept in thousandths, rounded down.                 *)
(***************************************************************************)

\* The words of scikit-learn's English stop list that the texts of this
\* model can contain.
EnglishStopWords == {<<"w", "h", "a", "t">>,
                      <<"i", "s">>,
                      <<"a", "r", "e">>,
                      <<"h", "o", "w">>,
                      <<"w", "h", "e", "n">>,
                      <<"w", "h", "e", "r", "e">>,
                      <<"w", "h", "y">>,
                      <<"w", "h", "o">>,
                      <<"w", "h", "i", "c", "h">>,
                      <<"t", "h", "e">>,
                      <<"a">>,
                      <<"a", "n">>,
                      <<"o", "n">>,
                      <<"f", "o", "r">>,
                      <<"o", "f">>,
                      <<"a", "n", "d">>}

\* build_analyzer(): lower-case, token pattern \b\w\w+\b, stop words removed.
Analyze(text) ==
  SelectSeq(WordRuns(Lower(text)),
            LAMBDA tok : Len(tok) >= 2 /\ tok \notin EnglishStopWords)

Count(term, toks) == Cardinality({ i \in DOMAIN toks : toks[i] = term })

\* idf = ln((1 + n) / (1 + df)) + 1  (smooth_idf), in tenths, rounded.
Idf10(n, df) ==
  IF df >= n THEN 10
  ELSE CASE n = 2 -> 14
         [] n = 3 -> (IF df = 1 THEN 17 ELSE 13)
         [] n = 4 -> (CASE df = 1 -> 19 [] df = 2 -> 15 [] OTHER -> 12)
         [] n = 5 -> (CASE df = 1 -> 21 [] df = 2 -> 17 [] df = 3 -> 14 [] OTHER -> 12)
         [] OTHER -> (CASE df = 1 -> 23 [] df = 2 -> 18 [] df = 3 -> 16
                        [] df = 4 -> 13 [] OTHER -> 12)

Unfitted == [fitted |-> FALSE, vocabulary |-> {}, idf |-> <<>>]

\* fit: the vocabulary of the corpus and the idf of each of its terms.  With
\* fewer than max_features terms no term is cut.  Raises ValueError (empty
\* vocabulary) when no document holds a term.
Fit(contents) ==
  LET toks  == [i \in DOMAIN contents |-> Analyze(contents[i])]
      vocab == UNION { Range(toks[i]) : i \in DOMAIN contents }
      df(term) == Cardinality({ i \in DOMAIN contents : term \in Range(toks[i]) })
  IN IF vocab = {} THEN [raised |-> TRUE, vectorizer |-> Unfitted]
     ELSE [raised |-> FALSE,
           vectorizer |-> [fitted |-> TRUE, vocabulary |-> vocab,
                           idf |-> [term \in vocab |-> Idf10(Len(contents), df(term))]]]

\* transform of one text: its row over the fitted vocabulary.
Transform(vectorizer, text) ==
  LET toks == Analyze(text)
  IN [term \in vectorizer.vocabulary |-> Count(term, toks) * vectorizer.idf[term]]

\* transform of a list of texts: one row per text, in order.
TransformAll(vectorizer, contents) ==
  [i \in DOMAIN contents |-> Transform(vectorizer, contents[i])]

RECURSIVE SumOver(_, _)
SumOver(f, keys) ==
  IF keys = {} THEN 0
  ELSE LET key == CHOOSE x \in keys : TRUE IN f[key] + SumOver(f, keys \ {key})

Dot(u, v) == SumOver([term \in DOMAIN u |-> u[term] * v[term]], DOMAIN u)

\* Integer square root by bisection: the r in lo..hi with r*r <= n < (r+1)^2.
RECURSIVE ISqrtIn(_, _, _)
ISqrtIn(n, lo, hi) ==
  IF lo >= hi THEN lo
  ELSE LET mid == (lo + hi + 1) \div 2
       IN IF mid * mid <= n THEN ISqrtIn(n, mid, hi) ELSE ISqrtIn(n, lo, mid - 1)

\* cosine_similarity of two rows, in thousandths: 0 when either row is zero.
\* cos^2 = (u.v / u.u) * (u.v / v.v); each factor is taken in thousandths.
CosMilli(u, v) ==
  LET uv == Dot(u, v)
      uu == Dot(u, u)
      vv == Dot(v, v)
  IN IF uu = 0 \/ vv = 0 THEN 0
     ELSE ISqrtIn(((1000 * uv) \div uu) * ((1000 * uv) \div vv), 0, 1000)

(***************************************************************************)
(* _search_with_query (retriever.py 185-283).  Scores are in thousandths.  *)
(* An operator that models code which can raise gives a record with the    *)
(* field raised.                                                           *)
(***************************************************************************)

\* dict.get(key, default) on a document.
DocGet(doc, key, default) == IF key \in DOMAIN doc THEN doc[key] ELSE default

\* dict(doc) with similarity_score and match_type set.
Scored(doc, score, type) ==
  [key \in (DOMAIN doc) \cup {"similarity_score", "match_type"} |->
     CASE key = "similarity_score" -> score
       [] key = "match_type" -> type
       [] OTHER -> doc[key]]

\* A score that ignores the length of the term.
ExactScoreFlat(term) == 500

\* min(1.0, len(term) / 20.0 + 0.5)
ExactScore(term) == Min(1000, (1000 * Len(term)) \div 20 + 500)

Maximum(set) == CHOOSE x \in set : \A y \in set : x >= y

\* The search terms found in the lower-cased content of a document.
TermsFound(doc, terms) ==
  { term \in terms : Contains(term, Lower(DocGet(doc, "content", <<>>))) }

\* The loop over self.documents (210-226): the exact matches, in order.
RECURSIVE ExactMatches(_, _)
ExactMatches(docs, terms) ==
  IF docs = <<>> THEN <<>>
  ELSE LET found == TermsFound(Head(docs), terms)
       IN (IF found = {} THEN <<>>
           ELSE << Scored(Head(docs), Maximum({ ExactScore(term) : term \in found }), "exact") >>)
          \o ExactMatches(Tail(docs), terms)

\* np.argsort(similarities)[::-1]: the row numbers by ascending similarity,
\* reversed.  Below 17 rows numpy sorts by insertion, which keeps equal
\* similarities in row order, so reversed the later row comes first.
RECURSIVE ArgsortReversed(_, _)
ArgsortReversed(sims, rows) ==
  IF rows = {} THEN <<>>
  ELSE LET best == CHOOSE i \in rows :
                     \A j \in rows : sims[i] > sims[j] \/ (sims[i] = sims[j] /\ i >= j)
       IN <<best>> \o ArgsortReversed(sims, rows \ {best})

\* A slice that cuts nothing.
TakeAll(seq, n) == seq

\* seq[:n] for n >= 0.
Take(seq, n) == SubSeq(seq, 1, Min(n, Len(seq)))

\* Similarity a TF-IDF match must exceed (0.05).
MinSimilarity == 50

\* The loop over top_indices (241-250).  self.documents[idx] raises
\* IndexError when the index holds more rows than there are documents.
RECURSIVE TfidfMatches(_, _, _)
TfidfMatches(docs, sims, top_indices) ==
  IF top_indices = <<>> THEN [raised |-> FALSE, value |-> <<>>]
  ELSE LET idx == Head(top_indices)
           rest == TfidfMatches(docs, sims, Tail(top_indices))
       IN IF sims[idx] > MinSimilarity
            THEN IF idx > Len(docs) THEN [raised |-> TRUE, value |-> <<>>]
                 ELSE IF rest.raised THEN rest
                 ELSE [raised |-> FALSE,
                       value |-> << Scored(docs[idx], sims[idx], "tfidf") >> \o rest.value]
            ELSE rest

\* all_matches is a dict keyed by file name: a sequence in insertion order.
KeyIndex(all_matches, file_name) ==
  IF \E i \in DOMAIN all_matches : all_matches[i].file_name = file_name
    THEN CHOOSE i \in DOMAIN all_matches : all_matches[i].file_name = file_name
    ELSE 0

\* for doc in exact_matches: all_matches[doc['file_name']] = doc   (256-258)
RECURSIVE AddExact(_, _)
AddExact(all_matches, matches) ==
  IF matches = <<>> THEN [raised |-> FALSE, value |-> all_matches]
  ELSE LET doc == Head(matches) IN
       IF "file_name" \notin DOMAIN doc THEN [raised |-> TRUE, value |-> <<>>]
       ELSE LET i == KeyIndex(all_matches, doc.file_name)
            IN AddExact(IF i = 0 THEN Append(all_matches, doc)
                                 ELSE [all_matches EXCEPT ![i] = doc],
                        Tail(matches))

\* for doc in tfidf_matches: ...   (261-271)
RECURSIVE AddTfidf(_, _)
AddTfidf(all_matches, matches) ==
  IF matches = <<>> THEN [raised |-> FALSE, value |-> all_matches]
  ELSE LET doc == Head(matches) IN
       IF "file_name" \notin DOMAIN doc THEN [raised |-> TRUE, value |-> <<>>]
       ELSE LET i == KeyIndex(all_matches, doc.file_name)
            IN AddTfidf(
                 IF i = 0 THEN Append(all_matches, doc)
                 ELSE IF all_matches[i].similarity_score < doc.similarity_score
                   THEN [all_matches EXCEPT
                           ![i].similarity_score = Max(@, doc.similarity_score),
                           ![i].match_type = "hybrid"]
                   ELSE all_matches,
                 Tail(matches))

\* list.sort(key=score, reverse=True): stable, equal scores keep their order.
RECURSIVE InsertByScore(_, _)
InsertByScore(doc, sorted) ==
  IF sorted = <<>> THEN <<doc>>
  ELSE IF DocGet(Head(sorted), "similarity_score", 0) >= DocGet(doc, "similarity_score", 0)
    THEN <<Head(sorted)>> \o InsertByScore(doc, Tail(sorted))
    ELSE <<doc>> \o sorted

RECURSIVE SortByScore(_)
SortByScore(docs) ==
  IF docs = <<>> THEN <<>>
  ELSE LET n == Len(docs)
       IN InsertByScore(docs[n], SortByScore(SubSeq(docs, 1, n - 1)))

\* A top_k argument: an integer, or a value of another type (a string).
IntK(i) == [type |-> "int", v |-> i]
StrK == [type |-> "str", v |-> 0]

\* What a block of code that raised leaves behind.
Raised == [raised |-> TRUE, value |-> <<>>]

\* cosine_similarity(query_vector, self.doc_vectors).flatten()   (232)
Similarities(query_vector, rows) ==
  [i \in DOMAIN rows |-> CosMilli(query_vector, rows[i])]

\* The top actual_k rows and the loop over them (235-250).
TopTfidf(docs, similarities, actual_k) ==
  TfidfMatches(docs, similarities,
               Take(ArgsortReversed(similarities, DOMAIN similarities), actual_k))

\* final_results.sort(...); return final_results[:top_k]   (273-277)
SortAndCut(with_tfidf, top_k) ==
  IF with_tfidf.raised THEN Raised
  ELSE [raised |-> FALSE, value |-> Take(SortByScore(with_tfidf.value), top_k.v)]

\* The second loop of the merge (261-271).
MergeTfidf(with_exact, tfidf_matches, top_k) ==
  IF with_exact.raised THEN Raised
  ELSE SortAndCut(AddTfidf(with_exact.value, tfidf_matches.value), top_k)

\* The merge of both lists into all_matches (253-271).
Merge(exact_matches, tfidf_matches, top_k) ==
  IF tfidf_matches.raised THEN Raised
  ELSE MergeTfidf(AddExact(<<>>, exact_matches), tfidf_matches, top_k)

\* exact_matches after the loop over self.documents (199-226).
exact_matches(r, query) == ExactMatches(r.documents, search_terms(Lower(query)))

\* tfidf_matches after the loop over top_indices (229-250).
tfidf_matches(r, query, top_k) ==
  TopTfidf(r.documents,
           Similarities(Transform(r.vectorizer, query), r.doc_vectors.rows),
           Min(top_k.v, Len(r.documents)))

\* The try block of _search_with_query on retriever r.  min(top_k, num_docs)
\* raises on a top_k that is not a number.
SearchBody(r, query, top_k) ==
  IF top_k.type # "int" THEN Raised
  ELSE Merge(exact_matches(r, query), tfidf_matches(r, query, top_k), top_k)

\* except Exception: return []
OrEmpty(body) == IF body.raised THEN <<>> ELSE body.value

\* _search_with_query(query, top_k) on retriever r.
SearchWithQuery(r, query, top_k) == OrEmpty(SearchBody(r, query, top_k))

(***************************************************************************)
(* retrieve_relevant_chunks (retriever.py 110-183)                         *)
(***************************************************************************)

\* Length a word must exceed to be tried alone in the third round.
SignificantLen == 4

\* Number of leading characters of the content in a result's identity.
SnippetLen == 100

\* Strategy 3 as it would be without the break: every significant word is
\* searched and all their results are kept.
RECURSIVE WordRoundsAll(_, _, _)
WordRoundsAll(r, words, top_k) ==
  IF words = <<>> THEN <<>>
  ELSE IF Len(Head(words)) > SignificantLen
    THEN SearchWithQuery(r, Head(words), top_k) \o WordRoundsAll(r, Tail(words), top_k)
    ELSE WordRoundsAll(r, Tail(words), top_k)

\* if word_results: all_results.extend(word_results); break
FirstFound(word_results, later) == IF word_results # <<>> THEN word_results ELSE later

\* Strategy 3 (158-166): the words of the key terms, one at a time, until
\* one of them gives a result.
RECURSIVE WordRounds(_, _, _)
WordRounds(r, words, top_k) ==
  IF words = <<>> THEN <<>>
  ELSE IF Len(Head(words)) > SignificantLen
    THEN FirstFound(SearchWithQuery(r, Head(words), top_k),
                    WordRounds(r, Tail(words), top_k))
    ELSE WordRounds(r, Tail(words), top_k)

\* Strategy 3 as it would be if it ran whatever the rounds before found.
Round3Always(r, after2, key_terms, top_k) ==
  after2 \o WordRounds(r, WordRuns(key_terms), top_k)

\* Strategy 3 runs when the rounds before it found nothing (158).
Round3(r, after2, key_terms, top_k) ==
  IF after2 = <<>> THEN WordRounds(r, WordRuns(key_terms), top_k) ELSE after2

\* Strategy 2 (148-156): the key terms as the query.
Round2(r, query, results1, key_terms, top_k) ==
  Round3(r,
         results1 \o (IF results1 = <<>> /\ key_terms # <<>> /\ key_terms # Lower(query)
                        THEN SearchWithQuery(r, key_terms, top_k)
                        ELSE <<>>),
         key_terms, top_k)

\* The results of all the rounds that ran (143-166).
AllResults(r, query, top_k) ==
  Round2(r, query, SearchWithQuery(r, query, top_k), extract_key_terms(query), top_k)

\* The _search_with_query calls of one retrieve_relevant_chunks call, in
\* the order they are made: the strategy, the query passed and the results.
Searched(round, term, results) == [round |-> round, term |-> term, results |-> results]

WordSearched(word, results, later) ==
  IF results # <<>> THEN <<Searched(3, word, results)>>            \* break
  ELSE <<Searched(3, word, results)>> \o later

RECURSIVE WordSearches(_, _, _)
WordSearches(r, words, top_k) ==
  IF words = <<>> THEN <<>>
  ELSE IF Len(Head(words)) > SignificantLen
    THEN WordSearched(Head(words), SearchWithQuery(r, Head(words), top_k),
                      WordSearches(r, Tail(words), top_k))
    ELSE WordSearches(r, Tail(words), top_k)

SearchesFrom3(r, sofar, found, key_terms, top_k) ==
  IF found = <<>> THEN sofar \o WordSearches(r, WordRuns(key_terms), top_k) ELSE sofar

SearchesFrom2(r, query, results1, key_terms, results2, top_k) ==
  IF results1 = <<>> /\ key_terms # <<>> /\ key_terms # Lower(query)
    THEN SearchesFrom3(r, <<Searched(1, query, results1), Searched(2, key_terms, results2)>>,
                       results2, key_terms, top_k)
    ELSE SearchesFrom3(r, <<Searched(1, query, results1)>>, results1, key_terms, top_k)

Searches(r, query, top_k) ==
  SearchesFrom2(r, query, SearchWithQuery(r, query, top_k), extract_key_terms(query),
                SearchWithQuery(r, extract_key_terms(query), top_k), top_k)

\* The identity of a result (172).
DocId(doc) == << doc.file_name, Take(DocGet(doc, "content", <<>>), SnippetLen) >>

\* Remove duplicates (169-175): the first result of each identity is kept.
RECURSIVE Unique(_, _)
Unique(docs, seen) ==
  IF docs = <<>> THEN <<>>
  ELSE IF DocId(Head(docs)) \in seen THEN Unique(Tail(docs), seen)
  ELSE <<Head(docs)>> \o Unique(Tail(docs), seen \cup {DocId(Head(docs))})

\* The try block of retrieve_relevant_chunks; [:top_k] raises on a top_k
\* that is not a number.
RetrieveBody(r, query, top_k) ==
  IF top_k.type # "int" THEN Raised
  ELSE [raised |-> FALSE,
        value |-> Take(SortByScore(Unique(AllResults(r, query, top_k), {})), top_k.v)]

\* The exception of the try block leaves the function.
Propagated(body) ==
  IF body.raised THEN [outcome |-> "raised", value |-> <<>>]
  ELSE [outcome |-> "returned", value |-> body.value]

\* except Exception: return []   (181-183)
Caught(body) == [outcome |-> "returned", value |-> OrEmpty(body)]

\* retrieve_relevant_chunks without its except clause.
RetrieveUnguarded(r, query, top_k) ==
  IF r.doc_vectors.none \/ r.documents = <<>>
    THEN [outcome |-> "returned", value |-> <<>>]
    ELSE Propagated(RetrieveBody(r, query, top_k))

\* retrieve_relevant_chunks(query, top_k) on retriever r.
retrieve_relevant_chunks(r, query, top_k) ==
  IF r.doc_vectors.none \/ r.documents = <<>>
    THEN [outcome |-> "returned", value |-> <<>>]
    ELSE Caught(RetrieveBody(r, query, top_k))

(***************************************************************************)
(* SimpleRetriever.__init__, the index cache and build_index (15-108)      *)
(***************************************************************************)

Contents(documents) == [i \in DOMAIN documents |-> DocGet(documents[i], "content", <<>>)]

\* get_cache_key: the digest of the contents fed to md5 one after the other,
\* that is of their concatenation; its 12 hex digits are taken to be
\* collision free on the collections of the model.
get_cache_key(documents) == <<"md5", Concat(Contents(documents))>>

\* The three pickle files under a key.  "pickles": all three readable;
\* "garbage": one of them does not unpickle; "partial": one is missing.
Pickles(vectorizer, vectors, documents) ==
  [kind |-> "pickles", vectorizer |-> vectorizer, vectors |-> vectors, documents |-> documents]

\* One pickle file: not there, cut short (it does not unpickle), or whole.
NoFile    == [file |-> "absent"]
Truncated == [file |-> "truncated"]
Whole(value) == [file |-> "data", value |-> value]

\* The three files under a key as a writer that stopped left them, file by
\* file (kind "files").
PickleFiles(vectorizer, vectors, documents) ==
  [kind |-> "files", vectorizer |-> vectorizer, vectors |-> vectors, documents |-> documents]

\* SimpleRetriever.load_from_cache as it would be if it looked at the
\* vectorizer file alone.
LoadVectorizerOnly(cache_key) ==
  IF cache_key \in DOMAIN indexCache /\ indexCache[cache_key].kind = "pickles"
    THEN [loaded |-> TRUE, vectorizer |-> indexCache[cache_key].vectorizer,
          vectors |-> indexCache[cache_key].vectors]
  ELSE IF cache_key \in DOMAIN indexCache /\ indexCache[cache_key].kind = "files"
          /\ indexCache[cache_key].vectorizer.file = "data"
    THEN [loaded |-> TRUE, vectorizer |-> indexCache[cache_key].vectorizer.value,
          vectors |-> IF indexCache[cache_key].vectors.file = "data"
                        THEN indexCache[cache_key].vectors.value ELSE <<>>]
    ELSE [loaded |-> FALSE, vectorizer |-> Unfitted, vectors |-> <<>>]

\* SimpleRetriever.load_from_cache(cache_key): all three files must exist
\* and unpickle; the vectorizer and the vectors are taken, the cached
\* documents are read and dropped.
retriever_load_from_cache(cache_key) ==
  IF cache_key \in DOMAIN indexCache /\ indexCache[cache_key].kind = "pickles"
    THEN [loaded |-> TRUE, vectorizer |-> indexCache[cache_key].vectorizer,
          vectors |-> indexCache[cache_key].vectors]
  ELSE IF cache_key \in DOMAIN indexCache /\ indexCache[cache_key].kind = "files"
          /\ indexCache[cache_key].vectorizer.file = "data"
          /\ indexCache[cache_key].vectors.file = "data"
          /\ indexCache[cache_key].documents.file = "data"
    THEN [loaded |-> TRUE, vectorizer |-> indexCache[cache_key].vectorizer.value,
          vectors |-> indexCache[cache_key].vectors.value]
    ELSE [loaded |-> FALSE, vectorizer |-> Unfitted, vectors |-> <<>>]

\* The state an index operation leaves: its outcome ("returned" or
\* "raised"), the vectorizer and doc_vectors after it, and the cache after.
Built(outcome, vectorizer, doc_vectors, cache) ==
  [outcome |-> outcome, vectorizer |-> vectorizer, doc_vectors |-> doc_vectors,
   cache |-> cache]

NoVectors == [none |-> TRUE, rows |-> <<>>]

\* self.save_to_cache(cache_key) when use_cache   (104-106)
Saved(vectorizer, vectors, documents, use_cache) ==
  Built("returned", vectorizer, [none |-> FALSE, rows |-> vectors],
        IF use_cache
          THEN (get_cache_key(documents) :> Pickles(vectorizer, vectors, documents))
               @@ indexCache
          ELSE indexCache)

\* fit_transform on the contents (98-101); its exception leaves build_index.
BuildFresh(fit, documents, use_cache) ==
  IF fit.raised THEN Built("raised", Unfitted, NoVectors, indexCache)
  ELSE Saved(fit.vectorizer, TransformAll(fit.vectorizer, Contents(documents)),
             documents, use_cache)

\* if use_cache and self.load_from_cache(cache_key): return   (84-92)
BuildOrLoad(hit, documents, use_cache) ==
  IF use_cache /\ hit.loaded
    THEN Built("returned", hit.vectorizer, [none |-> FALSE, rows |-> hit.vectors],
               indexCache)
    ELSE BuildFresh(Fit(Contents(documents)), documents, use_cache)

\* A build_index that refuses an empty collection with an error.
BuildIndexEmptyCorpusError(documents, use_cache) ==
  IF documents = <<>> THEN Built("raised", Unfitted, NoVectors, indexCache)
  ELSE BuildOrLoad(retriever_load_from_cache(get_cache_key(documents)),
                   documents, use_cache)

\* build_index on a retriever over documents.
build_index(documents, use_cache) ==
  IF documents = <<>> THEN Built("returned", Unfitted, NoVectors, indexCache)
  ELSE BuildOrLoad(retriever_load_from_cache(get_cache_key(documents)),
                   documents, use_cache)

\* base words of the texts
s_ai     == <<"a", "i">>
s_web    == <<"w", "e", "b">>
s_python == <<"p", "y", "t", "h", "o", "n">>
s_Python == <<"P", "y", "t", "h", "o", "n">>
s_the    == <<"t", "h", "e">>
s_date   == <<"5", "/", "2", "0", "2", "4">>
s_sp     == <<" ">>

Doc(name, content) == [file_name |-> name, content |-> content]

\* The document collections a retriever is constructed over.
CorpusThree  == << Doc("a.txt", s_ai), Doc("b.txt", s_web), Doc("c.txt", s_python) >>
CorpusTwo    == << Doc("a.txt", s_ai), Doc("b.txt", s_web \o s_python) >>
CorpusMixed  == << Doc("a.txt", s_Python \o s_sp \o s_web),
                   Doc("b.txt", s_ai \o s_sp \o s_web),
                   Doc("c.txt", s_the \o s_sp \o s_ai \o s_sp \o s_date) >>
CorpusNoName == << [content |-> s_python], Doc("b.txt", s_python \o s_sp \o s_web) >>
CorpusStops  == << Doc("a.txt", s_the \o s_sp \o <<"a">> \o s_sp \o <<"a", "n">>) >>
CorpusEmpty  == << >>

Corpora == {CorpusThree, CorpusTwo, CorpusMixed, CorpusNoName, CorpusStops, CorpusEmpty}

\* The queries asked.
QStopWords  == s_the \o s_sp \o <<"a">> \o s_sp \o <<"a", "n">>
QShort      == s_ai
QPhrase     == s_python \o s_sp \o s_web
QRepeated   == s_web \o s_sp \o s_web \o s_sp \o s_python
QQuestion   == <<"W", "h", "a", "t", " ", "i", "s", " ", "p", "y", "t", "h", "?">>
QTwoWords   == <<"p", "y", "t", "h", "o", " ", "r", "u", "s", "t">>
QDate       == <<"o", "n", " ">> \o s_date
QEmpty      == << >>
QThe        == s_the

Queries == {QStopWords, QShort, QPhrase, QRepeated, QQuestion, QTwoWords, QDate, QEmpty, QThe}

\* Largest integer top_k asked.
MaxK == 3

TopKs == { IntK(i) : i \in 0 .. MaxK } \cup {StrK}

\* SimpleRetriever(documents, use_cache): __init__ makes the cache directory
\* and builds the index; either can raise, and then there is no object.
\* The program is sequential: it constructs a retriever when no call of
\* retrieve_relevant_chunks is waiting to be taken by its caller.
Constructed(b, documents, use_cache) ==
  IF b.outcome = "raised" THEN [state |-> "raised"]
  ELSE [state |-> "constructed", documents |-> documents, use_cache |-> use_cache,
        vectorizer |-> b.vectorizer, doc_vectors |-> b.doc_vectors]

Indexed(b, documents, use_cache) ==
  /\ indexCache' = b.cache
  /\ retriever' = Constructed(b, documents, use_cache)

Construct(documents, use_cache) ==
  /\ answer = NoAnswer
  /\ cacheDir' = (IF cacheDir = "blocked" THEN "blocked" ELSE "present")
  /\ IF cacheDir = "blocked"
       THEN /\ retriever' = [state |-> "raised"]
            /\ indexCache' = indexCache
       ELSE Indexed(build_index(documents, use_cache), documents, use_cache)
  /\ answer' = NoAnswer
  /\ UNCHANGED <<fileBytes, ocrCache, loadResult, loadVars, ocrVars, cliVars>>

\* retrieve_relevant_chunks(query, top_k) is called on the retriever and
\* returns (or raises) to its caller.
Called(query, top_k, got) ==
  [state |-> "called", query |-> query, top_k |-> top_k,
   outcome |-> got.outcome, value |-> got.value]

\* self.documents as it would be after a search that wrote the score and
\* the match type of an exact match into the document itself.
DocumentsScoredInPlace(r, query, top_k) ==
  [i \in DOMAIN r.documents |->
     IF TermsFound(r.documents[i], search_terms(Lower(query))) = {} THEN r.documents[i]
     ELSE Scored(r.documents[i],
                 Maximum({ ExactScore(term) :
                           term \in TermsFound(r.documents[i], search_terms(Lower(query))) }),
                 "exact")]

\* self.documents after the call: similarity_score and match_type are
\* written to dict(doc) copies (222-225, 244-247) and, for a hybrid match,
\* to the copy held in all_matches (263-268); self.documents is only read.
DocumentsAfter(r, query, top_k) == r.documents

Retrieve(query, top_k) ==
  /\ retriever.state = "constructed"
  /\ answer = NoAnswer
  /\ answer' = Called(query, top_k, retrieve_relevant_chunks(retriever, query, top_k))
  /\ retriever' = [retriever EXCEPT !.documents = DocumentsAfter(retriever, query, top_k)]
  /\ UNCHANGED <<indexCache, cacheVars, loadVars, ocrVars, cliVars>>

\* The caller takes the result; the retriever is ready for the next call.
TakeAnswer ==
  /\ answer # NoAnswer
  /\ answer' = NoAnswer
  /\ UNCHANGED <<indexCache, retriever, cacheVars, loadVars, ocrVars, cliVars>>

\* A pickle file of the index cache is damaged or lost from outside.
DamageIndexEntry(key, kind) ==
  /\ key \in DOMAIN indexCache
  /\ indexCache[key].kind = "pickles"
  /\ indexCache' = [indexCache EXCEPT ![key] = [kind |-> kind]]
  /\ UNCHANGED <<retriever, answer, cacheVars, loadVars, ocrVars, cliVars>>

\* The files under a key, file by file, where no outside damage happened.
FilesUnder(key) ==
  IF key \notin DOMAIN indexCache THEN PickleFiles(NoFile, NoFile, NoFile)
  ELSE IF indexCache[key].kind = "pickles"
    THEN PickleFiles(Whole(indexCache[key].vectorizer), Whole(indexCache[key].vectors),
                     Whole(indexCache[key].documents))
  ELSE indexCache[key]

\* SimpleRetriever.save_to_cache stopped by the end of the process: the
\* files are written one after the other with open(.., 'wb') and
\* pickle.dump, so the first n are whole, and the next one is cut short
\* (torn) or was not opened yet; the others are as they were.
StoppedSave(old, n, torn, vectorizer, vectors, documents) ==
  PickleFiles(
    IF n >= 1 THEN Whole(vectorizer) ELSE IF torn THEN Truncated ELSE old.vectorizer,
    IF n >= 2 THEN Whole(vectors)
      ELSE IF n = 1 /\ torn THEN Truncated ELSE old.vectors,
    IF n = 2 /\ torn THEN Truncated ELSE old.documents)

\* A SimpleRetriever is constructed and the process stops inside the
\* save_to_cache call of build_index.  The next process starts with no
\* retriever.
Stopped(fit, key, n, torn, documents) ==
  /\ ~fit.raised
  /\ indexCache' =
       (key :> StoppedSave(FilesUnder(key), n, torn, fit.vectorizer,
                           TransformAll(fit.vectorizer, Contents(documents)), documents))
       @@ indexCache

ConstructStops(documents, n, torn) ==
  /\ answer = NoAnswer
  /\ cacheDir # "blocked"
  /\ documents # <<>>
  /\ ~retriever_load_from_cache(get_cache_key(documents)).loaded
  /\ get_cache_key(documents) \in DOMAIN indexCache =>
       indexCache[get_cache_key(documents)].kind \in {"pickles", "files"}
  /\ Stopped(Fit(Contents(documents)), get_cache_key(documents), n, torn, documents)
  /\ cacheDir' = "present"
  /\ retriever' = NoRetriever
  /\ answer' = NoAnswer
  /\ UNCHANGED <<fileBytes, ocrCache, loadResult, loadVars, ocrVars, cliVars>>

\* The call in progress recognised text and the process stops inside
\* save_to_cache: before open(cache_path, 'w'), or after it with the entry
\* file cut short (torn).
OcrPagesStops(torn) ==
  /\ ocr.state = "running"
  /\ FileExists(ocr.file)
  /\ cacheDir # "blocked"
  /\ ocr' = Idle
  /\ cacheDir' = "present"
  /\ ocrCache' = IF torn THEN [ocrCache EXCEPT ![CachePathOf(ocr.file)] = Garbage]
                         ELSE ocrCache
  /\ UNCHANGED <<fileBytes, loadResult, loadVars, retrVars, extracted, pdf, cliVars>>

NextRetr ==
  \/ \E documents \in Corpora, use_cache \in BOOLEAN : Construct(documents, use_cache)
  \/ \E query \in Queries, top_k \in TopKs : Retrieve(query, top_k)
  \/ TakeAnswer
  \/ \E key \in DOMAIN indexCache, kind \in {"garbage", "partial"} : DamageIndexEntry(key, kind)

SpecRetr == Init /\ [][NextRetr]_vars

\* The three-document scenario: its collection and its question, with the
\* default top_k and two more queries of the collection's words.
ScenarioA == <<"P", "y", "t", "h", "o", "n", " ", "i", "s", " ", "u", "s",
             "e", "d", " ", "f", "o", "r", " ", "w", "e", "b", " ", "d",
             "e", "v", "e", "l", "o", "p", "m", "e", "n", "t", ".">>
ScenarioB == <<"M", "a", "c", "h", "i", "n", "e", " ", "l", "e", "a", "r",
             "n", "i", "n", "g", " ", "i", "s", " ", "A", "I", ".">>
ScenarioC == <<"W", "e", "b", " ", "d", "e", "v", "e", "l", "o", "p", "m",
             "e", "n", "t", " ", "u", "s", "e", "s", " ", "P", "y", "t",
             "h", "o", "n", ".">>

CorpusScenario == << Doc("a.txt", ScenarioA), Doc("b.txt", ScenarioB), Doc("c.txt", ScenarioC) >>

QScenario == <<"W", "h", "a", "t", " ", "i", "s", " ", "P", "y", "t", "h",
             "o", "n", " ", "u", "s", "e", "d", " ", "f", "o", "r", "?">>

\* A question whose raw form and whose key terms match nothing, with two
\* significant words that each match; and its two words alone.
QEscalate == <<"W", "h", "a", "t", " ", "i", "s", " ", "p", "y", "t", "h",
              "o", " ", "m", "a", "c", "h", "i", "?">>
QTwoRounds == <<"p", "y", "t", "h", "o", " ", "m", "a", "c", "h", "i">>

ScenarioQueries == {QScenario, QPhrase, s_python, QEscalate, QTwoRounds}

NextScenario ==
  \/ \E use_cache \in BOOLEAN : Construct(CorpusScenario, use_cache)
  \/ \E query \in ScenarioQueries, top_k \in TopKs : Retrieve(query, top_k)
  \/ TakeAnswer
  \/ \E key \in DOMAIN indexCache, kind \in {"garbage", "partial"} : DamageIndexEntry(key, kind)

SpecScenario == Init /\ [][NextScenario]_vars

\* The two caches under storage faults: writers that stop inside
\* save_to_cache and a cache directory that is removed or cannot be created.
\* The collections are the two that share a cache key.
StoreCorpora == {CorpusThree, CorpusTwo}
StoreFiles == {f \in Files : f.dir = "data"}

NextStore ==
  \/ \E f \in StoreFiles, b \in ByteStrings : WriteFile(f, b)
  \/ \E f \in StoreFiles : ExtractTextWithOcr(f, TRUE)
  \/ OcrPages("text")
  \/ \E torn \in BOOLEAN : OcrPagesStops(torn)
  \/ \E documents \in StoreCorpora, use_cache \in BOOLEAN : Construct(documents, use_cache)
  \/ \E documents \in StoreCorpora, n \in 0 .. 2, torn \in BOOLEAN :
       ConstructStops(documents, n, torn)
  \/ \E s \in {"missing", "blocked"} : RemoveCacheDir(s)

SpecStore == Init /\ [][NextStore]_vars


(***************************************************************************)
(*                  PART 4: ChatbotCLI (cli_chatbot.py)                    *)
(*                                                                         *)
(* The documents are those of the folder loader of Part 2.  The retriever  *)
(* the object holds is known here by the collection it was constructed     *)
(* over; its index and its answers are those of Part 3.  The Gemini        *)
(* wrapper is outside the repository's retrieval code: only whether its    *)
(* construction raises is kept, and chat_history is not kept.              *)
(***************************************************************************)

\* SimpleRetriever(documents) as the CLI sees it.  __init__ creates the
\* cache directory first and raises when it cannot.  build: whether
\* build_index raises; fit_transform does when no content holds a term, which
\* only extracted text can (the placeholder and the failure messages hold
\* terms).  The folder of this model only gains files, so a collection
\* grown from an indexed one always holds a term: refresh passes "ok".
SimpleRetriever(documents, build) ==
  IF cacheDir = "blocked"
    THEN [raised |-> TRUE, dir |-> "blocked", retriever |-> NoRetriever]
  ELSE IF build = "raises" /\ \A i \in DOMAIN documents : documents[i].content.kind = "extracted"
    THEN [raised |-> TRUE, dir |-> "present", retriever |-> NoRetriever]
  ELSE [raised |-> FALSE, dir |-> "present",
        retriever |-> [state |-> "constructed", documents |-> documents]]

\* ChatbotCLI.initialize, called once by run().  An exception of the
\* retriever's construction leaves run(); a False result ends run().
Initialize(build, gemini) ==
  /\ cli.phase = "constructed"
  /\ loaded' = [loader |-> "plain", found |-> load_documents_from_folder.found,
                documents |-> load_documents_from_folder.documents]
  /\ IF load_documents_from_folder.documents = <<>>
       THEN /\ cli' = [phase |-> "stopped", documents |-> <<>>, retriever |-> NoRetriever]
            /\ cacheDir' = cacheDir
       ELSE /\ cacheDir' = SimpleRetriever(load_documents_from_folder.documents, build).dir
            /\ cli' = [phase |-> IF SimpleRetriever(load_documents_from_folder.documents, build).raised
                                     \/ gemini = "raises"
                                   THEN "stopped" ELSE "running",
                       documents |-> load_documents_from_folder.documents,
                       retriever |-> SimpleRetriever(load_documents_from_folder.documents, build).retriever]
  /\ UNCHANGED <<fileBytes, ocrCache, loadResult, folder, retrVars, ocrVars, asked>>

\* refresh_documents: self.documents is assigned first; an exception of the
\* retriever's construction is caught by the loop of run(), and leaves
\* self.retriever as it was.
refresh_documents ==
  IF load_documents_from_folder.documents = <<>>
    THEN [dir |-> cacheDir, documents |-> <<>>, retriever |-> NoRetriever]
  ELSE IF SimpleRetriever(load_documents_from_folder.documents, "ok").raised
    THEN [dir |-> SimpleRetriever(load_documents_from_folder.documents, "ok").dir,
          documents |-> load_documents_from_folder.documents,
          retriever |-> cli.retriever]
  ELSE [dir |-> SimpleRetriever(load_documents_from_folder.documents, "ok").dir,
        documents |-> load_documents_from_folder.documents,
        retriever |-> SimpleRetriever(load_documents_from_folder.documents, "ok").retriever]

\* The "refresh" command of the loop of run().
RefreshDocuments ==
  /\ cli.phase = "running"
  /\ loaded' = [loader |-> "plain", found |-> load_documents_from_folder.found,
                documents |-> load_documents_from_folder.documents]
  /\ cacheDir' = refresh_documents.dir
  /\ cli' = [cli EXCEPT !.documents = refresh_documents.documents,
                        !.retriever = refresh_documents.retriever]
  /\ UNCHANGED <<fileBytes, ocrCache, loadResult, folder, retrVars, ocrVars, asked>>

\* ask_question, from the loop of run(): the retriever self.retriever is
\* asked; with self.retriever = None the attribute access raises and the
\* loop catches it.  Kept: the collection the asked retriever was built
\* over and self.documents at that moment.
AskQuestion ==
  /\ cli.phase = "running"
  /\ asked' = IF cli.retriever = NoRetriever
                THEN [state |-> "raised"]
                ELSE [state |-> "answered", over |-> cli.retriever.documents,
                      documents |-> cli.documents]
  /\ UNCHANGED <<cacheVars, loadVars, retrVars, ocrVars, cli>>

NextCli ==
  \/ MakeFolder
  \/ \E k \in FileKinds : PutFile(k)
  \/ \E s \in {"missing", "blocked"} : RemoveCacheDir(s)
  \/ \E build \in {"ok", "raises"}, gemini \in {"ok", "raises"} : Initialize(build, gemini)
  \/ RefreshDocuments
  \/ AskQuestion

SpecCli == Init /\ [][NextCli]_vars

(***************************************************************************)
(*                              PROPERTIES                                 *)
(***************************************************************************)

\* The entry file load_from_cache(f) reads.
EntryOf(f) == IF cacheDir = "present" THEN ocrCache[CachePathOf(f)] ELSE Absent

\* C1: the OCR cache never serves a stale payload.  Whatever load_from_cache
\* gives for a file is None, or the content of an entry that save_to_cache
\* wrote while the saved file held exactly the bytes the loaded file holds
\* now; and when the MD5 of the current bytes differs from the stored
\* file_hash it gives None.
C1_NeverStale ==
  \A f \in Files :
    load_from_cache(f).outcome = "returned" =>
      /\ \/ load_from_cache(f).value = None
         \/ /\ EntryOf(f).kind = "object"
            /\ FileExists(f)
            /\ EntryOf(f).origin = fileBytes[f]
            /\ load_from_cache(f).value = EntryOf(f).fields.content
      /\ (/\ EntryOf(f).kind = "object"
          /\ FileExists(f)
          /\ DictGet(EntryOf(f).fields, "file_hash") # Md5(fileBytes[f]))
         => load_from_cache(f).value = None

\* A load that missed although an entry with a payload was there: the entry
\* was saved while the file held other bytes than it holds now.
C1_Witness ==
  \E f \in Files :
    /\ loadResult = [file |-> f, outcome |-> "returned", value |-> None]
    /\ FileExists(f)
    /\ EntryOf(f).kind = "object"
    /\ EntryOf(f).origin \notin {0, fileBytes[f]}
    /\ DictGet(EntryOf(f).fields, "content") \in Texts

\* C3: load_documents_from_folder returns exactly one document for each file
\* the globs found, also when extracting some file raises.
C3_LoadCompleteness ==
  loaded.loader = "plain" => Len(loaded.documents) = loaded.found

\* The states of the cache storage in which a lookup has nothing to give:
\* no entry file, an entry that does not parse, one that is not an object or
\* lacks a field, or a cache directory that cannot be reached.
NothingToGive(f) ==
  \/ cacheDir = "blocked"
  \/ EntryOf(f).kind \in {"absent", "garbage", "array"}
  \/ /\ EntryOf(f).kind = "object"
     /\ {"file_hash", "content"} \ DOMAIN EntryOf(f).fields # {}

\* C10: a missing, unreadable or malformed cache entry, or cache storage
\* that cannot be accessed, is a miss: load_from_cache returns None and
\* raises nothing.
C10_MissNotFatal ==
  \A f \in Files :
    NothingToGive(f) =>
      /\ load_from_cache(f).outcome = "returned"
      /\ load_from_cache(f).value = None

\* A retriever that holds documents and an index, and a call made on it.
Searchable(r) == r.state = "constructed" /\ r.documents # <<>> /\ ~r.doc_vectors.none
Answered == answer.state = "called"
AnsweredInt == Answered /\ answer.top_k.type = "int"

\* C2: after build_index completes on a non-empty collection, freshly built
\* or loaded from the index cache, doc_vectors has one row per document and
\* row i is the TF-IDF vector of the content of documents[i].
C2_IndexAligned ==
  (retriever.state = "constructed" /\ retriever.documents # <<>>) =>
    /\ ~retriever.doc_vectors.none
    /\ Len(retriever.doc_vectors.rows) = Len(retriever.documents)
    /\ \A i \in DOMAIN retriever.documents :
         retriever.doc_vectors.rows[i] =
           Transform(retriever.vectorizer, DocGet(retriever.documents[i], "content", <<>>))

\* The places of a file name in a list of results.
Places(docs, file_name) ==
  { i \in DOMAIN docs : "file_name" \in DOMAIN docs[i] /\ docs[i].file_name = file_name }

\* C4: in one search round a document matched both by the exact strategy
\* and by the vector strategy appears exactly once in the round's result,
\* with the larger of the two scores and the match kind hybrid.
C4_MergeCorrect ==
  (AnsweredInt /\ Searchable(retriever)) =>
    \A e \in Range(exact_matches(retriever, answer.query)) :
      \A t \in Range(tfidf_matches(retriever, answer.query, answer.top_k).value) :
        ("file_name" \in DOMAIN e /\ "file_name" \in DOMAIN t /\ e.file_name = t.file_name) =>
          /\ Cardinality(Places(SearchWithQuery(retriever, answer.query, answer.top_k),
                                e.file_name)) = 1
          /\ \A d \in Range(SearchWithQuery(retriever, answer.query, answer.top_k)) :
               d.file_name = e.file_name =>
                 /\ d.similarity_score = Max(e.similarity_score, t.similarity_score)
                 /\ d.match_type = "hybrid"

\* The file names of a result, in its order.
Names(docs) == [i \in DOMAIN docs |-> docs[i].file_name]

\* Every name of small is in big, and big lists them in the order of small.
SubsequenceOf(small, big) ==
  /\ Range(small) \subseteq Range(big)
  /\ SelectSeq(big, LAMBDA name : name \in Range(small)) = small

\* C5: for a fixed index and query and 1 <= k < k', every document returned
\* for k is returned for k', in the same relative order.
C5_Monotone ==
  (AnsweredInt /\ answer.top_k.v >= 1 /\ retriever.state = "constructed") =>
    \A k2 \in (answer.top_k.v + 1) .. MaxK :
      SubsequenceOf(Names(answer.value),
                    Names(retrieve_relevant_chunks(retriever, answer.query, IntK(k2)).value))

\* C6: retrieve_relevant_chunks never raises to its caller; it returns a
\* list of documents, empty when there is no index and when an error
\* occurred inside it.
C6_NeverRaises ==
  Answered =>
    /\ answer.outcome = "returned"
    /\ DOMAIN answer.value = 1 .. Len(answer.value)
    /\ \A i \in DOMAIN answer.value : "file_name" \in DOMAIN answer.value[i]
    /\ ~Searchable(retriever) => answer.value = <<>>
    /\ (Searchable(retriever) /\ RetrieveBody(retriever, answer.query, answer.top_k).raised)
         => answer.value = <<>>

\* A call with a top_k that is not a number on a retriever with an index:
\* the slice raises inside retrieve_relevant_chunks, and the caller got [].
C6_Witness ==
  /\ Answered
  /\ Searchable(retriever)
  /\ answer.top_k = StrK
  /\ RetrieveBody(retriever, answer.query, answer.top_k).raised
  /\ answer.outcome = "returned"
  /\ answer.value = <<>>

\* C7: when a document of the collection makes a search round raise (it
\* lacks file_name), the round still returns the matches of the other
\* documents: with top_k no smaller than the collection, every well-formed
\* document that matches exactly is in the round's result.
C7_Isolation ==
  (/\ AnsweredInt
   /\ Searchable(retriever)
   /\ answer.top_k.v >= Len(retriever.documents)
   /\ \E i \in DOMAIN retriever.documents : "file_name" \notin DOMAIN retriever.documents[i]) =>
    \A e \in Range(exact_matches(retriever, answer.query)) :
      "file_name" \in DOMAIN e =>
        Places(SearchWithQuery(retriever, answer.query, answer.top_k), e.file_name) # {}

\* Directory listings that hold no file with a supported extension.
UnsupportedListings ==
  { [i \in 1 .. n |-> [name |-> <<i, ".png">>, ext |-> ".png", behaves |-> "text"]] :
      n \in 0 .. MaxFiles }

StopOnly(query) ==
  /\ WordRuns(Lower(query)) # <<>>
  /\ \A word \in Range(WordRuns(Lower(query))) :
       word \in Range(question_words) \/ Len(word) <= ShortWordLen

\* C9 as stated: a query made only of stop or question words returns the
\* empty sequence against any non-empty corpus.
C9_StopWordsEmpty ==
  (Answered /\ Searchable(retriever) /\ StopOnly(answer.query)) =>
    (answer.outcome = "returned" /\ answer.value = <<>>)

\* C9: for a query made only of stop or question words the second and
\* third rounds search nothing, so the call returns, without an error, what
\* the first round finds for the raw query: the empty sequence when no
\* document contains the query and no row is similar to it.
C9_StopWordsFirstRound ==
  (AnsweredInt /\ Searchable(retriever) /\ StopOnly(answer.query)) =>
    /\ answer.outcome = "returned"
    /\ answer.value = SearchWithQuery(retriever, answer.query, answer.top_k)
    /\ (/\ exact_matches(retriever, answer.query) = <<>>
        /\ tfidf_matches(retriever, answer.query, answer.top_k).value = <<>>)
       => answer.value = <<>>

\* The query "the a an" was asked with a positive top_k of a retriever with
\* documents, none of which contains it, and gave the empty sequence.
C9_Witness ==
  /\ AnsweredInt
  /\ Searchable(retriever)
  /\ answer.query = QStopWords
  /\ answer.top_k.v >= 1
  /\ exact_matches(retriever, answer.query) = <<>>
  /\ answer.value = <<>>

\* The entry of f is a hit: it was stored under the hash of the bytes f
\* holds now.  It is stale: it was stored under another hash.
Fresh(f) ==
  /\ FileExists(f)
  /\ EntryOf(f).kind = "object"
  /\ DictGet(EntryOf(f).fields, "file_hash") = Md5(fileBytes[f])
  /\ DictGet(EntryOf(f).fields, "content") # None

Stale(f) ==
  /\ FileExists(f)
  /\ EntryOf(f).kind = "object"
  /\ DictGet(EntryOf(f).fields, "file_hash") # None
  /\ DictGet(EntryOf(f).fields, "file_hash") # Md5(fileBytes[f])

\* C11: invalidate-then-refresh ordering.  A call of extract_text_with_ocr
\* on a file whose entry is fresh returns the cached text without entering
\* OCR; a call on a file whose entry is stale returns nothing from the
\* cache and starts OCR; when that OCR gives text and the entry can be
\* written, the entry is overwritten with the hash of the bytes the file
\* holds then, which differs from the stale hash, and the entry is fresh,
\* so that the next call is a hit again.
C11_InvalidateThenRefresh ==
  [][ /\ \A f \in Files :
           (Fresh(f) /\ ExtractTextWithOcr(f, TRUE)) =>
             /\ extracted' = Finished(f, "returned", DictGet(EntryOf(f).fields, "content"), FALSE)
             /\ ocr' = Idle
      /\ \A f \in Files :
           (Stale(f) /\ ExtractTextWithOcr(f, TRUE)) =>
             /\ ocr' = Running(f, fileBytes[f])
             /\ extracted' = extracted
      /\ \A f \in Files, b \in ByteStrings :
           (ocr = Running(f, b) /\ OcrPages("text")
              /\ FileExists(f) /\ cacheDir # "blocked") =>
             /\ extracted' = Finished(f, "returned", OcrText(b), TRUE)
             /\ Fresh(f)'
             /\ DictGet(EntryOf(f).fields, "content")' = OcrText(b)
             /\ Stale(f) =>
                  DictGet(EntryOf(f).fields, "file_hash")'
                    # DictGet(EntryOf(f).fields, "file_hash")
    ]_vars

\* A hit on an entry that was refreshed after the file changed: the file
\* holds its second byte string, the call returned the text of that byte
\* string from the cache without entering OCR.
C11_Witness ==
  \E f \in Files :
    /\ fileBytes[f] = 2
    /\ Fresh(f)
    /\ EntryOf(f).origin = 2
    /\ extracted = Finished(f, "returned", OcrText(2), FALSE)

\* C12: OCR failures are never cached.  A step of extract_text_with_ocr
\* changes the entry files only when it finishes an OCR run that produced
\* text, and then the entry written holds that text; a call that finds OCR
\* unavailable, raises, fails or finds no readable text leaves every entry
\* as it was, so a file without a fresh entry still has none and the next
\* call enters OCR again.  No entry ever holds a failure message.
C12_FailuresNotCached ==
  [][ /\ \A f \in Files :
           (ExtractTextWithOcr(f, FALSE) \/ ExtractTextWithOcr(f, TRUE)) =>
             ocrCache' = ocrCache
      /\ \A f \in Files, b \in ByteStrings, pages \in {"text", "no_text", "raises"} :
           (ocr = Running(f, b) /\ OcrPages(pages)) =>
             IF extracted'.value \in Texts
               THEN /\ pages = "text"
                    /\ extracted'.value = OcrText(b)
                    /\ ocrCache' = [ocrCache EXCEPT ![CachePathOf(f)] =
                          Object([file_hash |-> Md5(fileBytes[f]),
                                  content |-> OcrText(b)], fileBytes[f])]
               ELSE /\ ocrCache' = ocrCache
                    /\ ~Fresh(f) => ~Fresh(f)'
      /\ \A p \in CachePaths :
           ocrCache[p].kind = "object" =>
             DictGet(ocrCache[p].fields, "content") \in Texts \cup {None}
    ]_vars

\* An OCR run found no readable text, and no entry exists for the file.
C12_Witness ==
  \E f \in Files :
    /\ extracted = Finished(f, "returned", Message("OCR found no readable text", f), TRUE)
    /\ cacheDir = "present"
    /\ EntryOf(f).kind = "absent"

\* C13: every Document returned by load_documents_from_folder has content
\* that is neither empty nor only whitespace and that belongs to the file
\* the Document names; the Document of a file whose extraction gave only
\* whitespace holds the placeholder naming the file, and the Document of a
\* PDF whose processing failed holds the failure message naming the file.
C13_ContentNeverBlank ==
  loaded.loader = "plain" =>
    /\ \A i \in DOMAIN loaded.documents :
         /\ ~loaded.documents[i].content.blank
         /\ loaded.documents[i].content.file = loaded.documents[i].file_name
         /\ loaded.documents[i].content.kind \in {"extracted", "failure_message", "placeholder"}
    /\ \A d \in Range(load_documents_from_folder.documents) :
         \A f \in Range(folder.files) :
           f.name = d.file_name =>
             /\ ~d.content.blank
             /\ f.behaves = "blank" => d.content = Placeholder(f, "placeholder")
             /\ f.behaves = "failed" => d.content.kind = "failure_message"
             /\ f.behaves = "text" => d.content.kind = "extracted"

\* A load returned a placeholder Document and a failure-message Document.
C13_Witness ==
  /\ loaded.loader = "plain"
  /\ \E i \in DOMAIN loaded.documents : loaded.documents[i].content.kind = "placeholder"
  /\ \E i \in DOMAIN loaded.documents : loaded.documents[i].content.kind = "failure_message"

\* C14: per-file error isolation in load_documents_from_folder.  After a
\* load of the folder as it is, every file the glob found has its Document
\* in the result: a file whose extraction raised has a placeholder Document
\* carrying the error, every other file has the Document of its content.
C14_PerFileIsolation ==
  (loaded.loader = "plain"
     /\ loaded.found = load_documents_from_folder.found
     /\ loaded.documents = load_documents_from_folder.documents) =>
    \A f \in Range(AllFiles(folder.files)) :
      \E i \in DOMAIN loaded.documents :
        /\ loaded.documents[i].file_name = f.name
        /\ f.behaves = "raises" => loaded.documents[i].content = Placeholder(f, "error")
        /\ f.behaves \in {"text", "failed"} => loaded.documents[i].content = Extract(f).content

\* C15: refresh is swap-on-completion.  While the CLI runs, the retriever
\* it holds is absent or was constructed over exactly the documents it
\* holds, and every question answered was answered by a retriever
\* constructed over the documents held at that moment.
C15_SwapOnCompletion ==
  /\ cli.phase = "running" =>
       \/ cli.retriever = NoRetriever
       \/ cli.retriever.documents = cli.documents
  /\ asked.state = "answered" => asked.over = asked.documents

\* The cache keys of the collections of SpecStore.
StoreKeys == { get_cache_key(c) : c \in StoreCorpora }

\* C17: crash safety of the cache writes.  Whatever writers stopped inside
\* save_to_cache before, a load of the extraction cache gives nothing or
\* the content of an entry that one save wrote completely under the hash
\* of the file's current bytes, and a load of the index cache misses or
\* gives the vectorizer and the vectors that one build of a collection
\* with that key produced together.
C17_CrashSafe ==
  /\ \A f \in Files :
       (load_from_cache(f).outcome = "returned" /\ load_from_cache(f).value # None) =>
         /\ EntryOf(f).kind = "object"
         /\ DOMAIN EntryOf(f).fields = {"file_hash", "content"}
         /\ EntryOf(f).fields.file_hash = Md5(fileBytes[f])
         /\ EntryOf(f).fields.content = load_from_cache(f).value
         /\ load_from_cache(f).value \in Texts
  /\ \A key \in StoreKeys :
       retriever_load_from_cache(key).loaded =>
         \E c \in StoreCorpora :
           /\ get_cache_key(c) = key
           /\ retriever_load_from_cache(key).vectorizer = Fit(Contents(c)).vectorizer
           /\ retriever_load_from_cache(key).vectors =
                TransformAll(Fit(Contents(c)).vectorizer, Contents(c))

\* Writers stopped in both caches: the extraction entry is cut short and
\* the index entry has a whole vectorizer file next to a cut-short vectors
\* file; both loads miss.
C17_Witness ==
  /\ \E f \in Files : EntryOf(f) = Garbage /\ load_from_cache(f).value = None
  /\ \E key \in StoreKeys :
       /\ key \in DOMAIN indexCache
       /\ indexCache[key].kind = "files"
       /\ indexCache[key].vectorizer.file = "data"
       /\ indexCache[key].vectors.file = "truncated"
       /\ ~retriever_load_from_cache(key).loaded

\* C16: a cache that cannot be used is not fatal.  While the cache
\* directory cannot be created, a call of extract_text_with_ocr on an
\* existing file goes on to OCR, an OCR run that produced text returns that
\* text, and a SimpleRetriever construction gives a retriever whose index is
\* the one a build without cache gives.
C16_CacheFailureNonFatal ==
  [][ /\ \A f \in Files :
           (cacheDir = "blocked" /\ FileExists(f) /\ ExtractTextWithOcr(f, TRUE)) =>
             ocr' = Running(f, fileBytes[f])
      /\ \A f \in Files, b \in ByteStrings :
           (cacheDir = "blocked" /\ ocr = Running(f, b) /\ FileExists(f) /\ OcrPages("text")) =>
             extracted' = Finished(f, "returned", OcrText(b), TRUE)
      /\ \A documents \in StoreCorpora, use_cache \in BOOLEAN :
           (cacheDir = "blocked" /\ Construct(documents, use_cache)) =>
             /\ retriever'.state = "constructed"
             /\ retriever'.doc_vectors.rows =
                  TransformAll(Fit(Contents(documents)).vectorizer, Contents(documents))
    ]_vars

\* C18: the stored fingerprint of an extraction cache entry is the hash of
\* the bytes its text was extracted from: an entry holding the text of byte
\* string b under a file_hash holds the MD5 of b, also when the file was
\* written while the OCR pass ran.
C18_FingerprintOfBytesRead ==
  \A p \in CachePaths, b \in ByteStrings :
    (/\ ocrCache[p].kind = "object"
     /\ DictGet(ocrCache[p].fields, "content") = OcrText(b)
     /\ DictGet(ocrCache[p].fields, "file_hash") # None) =>
      DictGet(ocrCache[p].fields, "file_hash") = Md5(b)

\* The retriever a construction without cache gives over the documents of r.
Uncached(r) ==
  Constructed(build_index(r.documents, FALSE), r.documents, FALSE)

\* C19: index cache transparency.  A retriever constructed with
\* use_cache = True, whatever was built and cached before, holds the
\* vectorizer and the vectors a build without cache gives for its
\* collection, and every call on it returns what the same call returns on
\* the retriever built without cache over the same collection.
C19_CacheTransparent ==
  (retriever.state = "constructed" /\ retriever.use_cache) =>
    /\ Uncached(retriever).state = "constructed"
    /\ retriever.vectorizer = Uncached(retriever).vectorizer
    /\ retriever.doc_vectors = Uncached(retriever).doc_vectors
    /\ Answered =>
         /\ answer.outcome =
              retrieve_relevant_chunks(Uncached(retriever), answer.query, answer.top_k).outcome
         /\ answer.value =
              retrieve_relevant_chunks(Uncached(retriever), answer.query, answer.top_k).value

\* The results of a call that name the file.
Hits(value, file_name) ==
  { i \in DOMAIN value : "file_name" \in DOMAIN value[i] /\ value[i].file_name = file_name }

\* C20: the three-document scenario.  For the question "What is Python
\* used for?" with the default top_k of 3, a.txt and c.txt are returned,
\* b.txt is not ranked before either of them, and the match kind of a.txt
\* includes exact (exact or hybrid).
C20_Scenario ==
  (/\ retriever.state = "constructed"
   /\ retriever.documents = CorpusScenario
   /\ Answered
   /\ answer.query = QScenario
   /\ answer.top_k = IntK(3)) =>
    /\ answer.outcome = "returned"
    /\ Hits(answer.value, "a.txt") # {}
    /\ Hits(answer.value, "c.txt") # {}
    /\ \A b \in Hits(answer.value, "b.txt") :
         \A i \in Hits(answer.value, "a.txt") \cup Hits(answer.value, "c.txt") : i < b
    /\ \A i \in Hits(answer.value, "a.txt") :
         answer.value[i].match_type \in {"exact", "hybrid"}

\* All the results of a list of searches, in order.
RECURSIVE ResultsOf(_)
ResultsOf(searches) ==
  IF searches = <<>> THEN <<>>
  ELSE Head(searches).results \o ResultsOf(Tail(searches))

\* The significant words of the key terms of a query, in query order.
SignificantWords(query) ==
  SelectSeq(WordRuns(extract_key_terms(query)), LAMBDA w : Len(w) > SignificantLen)

\* The searches of the call that was answered.
AnswerSearches == Searches(retriever, answer.query, answer.top_k)

\* C21: fallback escalation order.  In every call the first search is the
\* raw query; a search with the key terms is made only second and only when
\* the first gave nothing; single-word searches are made only when every
\* search before gave nothing, so at most the last of them found anything
\* and no word after a successful one is tried; the words tried are the
\* words of the key terms longer than 4 characters, in query order.  The
\* call returns the results of exactly these searches, deduplicated,
\* sorted and cut.
C21_EscalationOrder ==
  (Searchable(retriever) /\ AnsweredInt) =>
    /\ AnswerSearches[1] = Searched(1, answer.query,
                                    SearchWithQuery(retriever, answer.query, answer.top_k))
    /\ \A i \in DOMAIN AnswerSearches :
         /\ AnswerSearches[i].round = 1 => i = 1
         /\ AnswerSearches[i].round = 2 =>
              /\ i = 2
              /\ AnswerSearches[1].results = <<>>
              /\ AnswerSearches[i].term = extract_key_terms(answer.query)
         /\ AnswerSearches[i].round = 3 =>
              \A j \in 1 .. i - 1 : AnswerSearches[j].results = <<>>
    /\ LET words == SelectSeq(AnswerSearches, LAMBDA x : x.round = 3)
       IN /\ Len(words) <= Len(SignificantWords(answer.query))
          /\ \A i \in DOMAIN words : words[i].term = SignificantWords(answer.query)[i]
    /\ answer.value =
         Take(SortByScore(Unique(ResultsOf(AnswerSearches), {})), answer.top_k.v)

\* All three strategies ran and the third stopped at its first word, which
\* found something, leaving a later significant word untried.
C21_Witness ==
  /\ Searchable(retriever) /\ AnsweredInt
  /\ Len(AnswerSearches) = 3
  /\ AnswerSearches[2].round = 2
  /\ AnswerSearches[3].round = 3
  /\ AnswerSearches[3].results # <<>>
  /\ Len(SignificantWords(answer.query)) = 2
  /\ answer.value # <<>>

\* similarities and top_indices of the search of the raw query (231-235).
AnswerSimilarities ==
  Similarities(Transform(retriever.vectorizer, answer.query), retriever.doc_vectors.rows)

AnswerTopIndices ==
  Take(ArgsortReversed(AnswerSimilarities, DOMAIN AnswerSimilarities),
       Min(answer.top_k.v, Len(retriever.documents)))

\* C22: vector candidates (the top rows whose similarity exceeds 0.05) are
\* taken by cosine similarity descending, and of two documents with the same
\* similarity the earlier one of the collection comes first.
C22_TiesInDocumentOrder ==
  (Searchable(retriever) /\ AnsweredInt) =>
    \A i, j \in DOMAIN AnswerTopIndices :
      (i < j /\ AnswerSimilarities[AnswerTopIndices[j]] > MinSimilarity) =>
        \/ AnswerSimilarities[AnswerTopIndices[i]] > AnswerSimilarities[AnswerTopIndices[j]]
        \/ /\ AnswerSimilarities[AnswerTopIndices[i]] = AnswerSimilarities[AnswerTopIndices[j]]
           /\ AnswerTopIndices[i] < AnswerTopIndices[j]

\* C23: final result shape.  A call with top_k >= 1 returns at most top_k
\* documents, their scores never rise along the list, and no two of them
\* have the same (file name, first 100 characters of content).
C23_ResultShape ==
  (AnsweredInt /\ answer.top_k.v >= 1) =>
    /\ Len(answer.value) <= answer.top_k.v
    /\ \A i, j \in DOMAIN answer.value :
         i < j =>
           /\ answer.value[i].similarity_score >= answer.value[j].similarity_score
           /\ DocId(answer.value[i]) # DocId(answer.value[j])

\* A call that returned exactly top_k documents of a collection in which
\* more than top_k documents match the query.
C23_Witness ==
  /\ Searchable(retriever) /\ AnsweredInt
  /\ answer.top_k.v = 2
  /\ Len(answer.value) = 2
  /\ Len(exact_matches(retriever, answer.query)) > 2

\* The search terms of the answered query and its exact matches (198-226).
AnswerTerms == search_terms(Lower(answer.query))
AnswerExact == exact_matches(retriever, answer.query)

\* The terms of the answered query that occur in the lower-cased content.
TermsIn(doc) ==
  { term \in AnswerTerms : Contains(term, Lower(DocGet(doc, "content", <<>>))) }

\* C24: exact-match scoring.  The exact matches of a search are exactly the
\* documents, in collection order, whose lower-cased content contains the
\* lower-cased query or a date-like substring of it; each is a copy of its
\* document with match type exact and the score max over the terms found of
\* min(1.0, len(term)/20 + 0.5) (in thousandths); the score lies in
\* [0.5, 1.0] and is 1.0 exactly when a term of 10 or more characters was
\* found.
C24_ExactScoring ==
  (Searchable(retriever) /\ AnsweredInt) =>
    LET matching == SelectSeq(retriever.documents, LAMBDA doc : TermsIn(doc) # {})
    IN /\ Lower(answer.query) \in AnswerTerms
       /\ \A term \in AnswerTerms : Contains(term, Lower(answer.query))
       /\ Len(AnswerExact) = Len(matching)
       /\ \A i \in DOMAIN matching :
            LET score == AnswerExact[i].similarity_score
            IN /\ AnswerExact[i] = Scored(matching[i], score, "exact")
               /\ \E term \in TermsIn(matching[i]) :
                    score = Min(1000, 50 * Len(term) + 500)
               /\ \A term \in TermsIn(matching[i]) :
                    score >= Min(1000, 50 * Len(term) + 500)
               /\ score >= 500 /\ score <= 1000
               /\ score = 1000 <=> \E term \in TermsIn(matching[i]) : Len(term) >= 10

\* A search whose query of 10 characters occurs in a document in another
\* case, and in no other document.
C24_Witness ==
  /\ Searchable(retriever) /\ AnsweredInt
  /\ Len(answer.query) = 10
  /\ Len(AnswerExact) = 1
  /\ Len(retriever.documents) = 3
  /\ AnswerExact[1].similarity_score = 1000
  /\ ~Contains(answer.query, AnswerExact[1].content)

\* C25: the OCR decision of load_pdf.  A call that opened the PDF goes into
\* OCR exactly when none of the first min(5, page count) pages gives text
\* that is not blank; when a sampled page gives text no OCR call is made
\* or in progress, every remaining page is extracted directly, and the text
\* returned is that of the sampled pages with text followed by that of the
\* remaining pages whose extraction did not raise.
C25_OcrDecision ==
  (pdf.state = "called" /\ pdf.opened) =>
    LET first == 1 .. Min(5, Len(pdf.pages))
        found == \E i \in first : pdf.pages[i] = "text"
    IN /\ pdf.decision = "ocr" <=> ~found
       /\ pdf.decision = "direct" <=> found
       /\ found =>
            /\ ocr = Idle /\ extracted = NotExtracted
            /\ pdf.tried = DOMAIN pdf.pages
            /\ \A i \in DOMAIN pdf.pages :
                 (\E j \in DOMAIN pdf.appended : pdf.appended[j] = i)
                   <=> IF i \in first THEN pdf.pages[i] = "text" ELSE pdf.pages[i] # "raises"
            /\ \A i, j \in DOMAIN pdf.appended : i < j => pdf.appended[i] < pdf.appended[j]
       /\ ~found =>
            /\ pdf.tried = first
            /\ ocr # Idle \/ (extracted # NotExtracted /\ extracted.file = pdf.file)

\* A PDF of more than five pages whose only text is on a page after the
\* fifth: the call went into OCR and the pass is running.
C25_Witness ==
  /\ pdf.state = "called" /\ pdf.opened
  /\ Len(pdf.pages) > 5
  /\ \E i \in DOMAIN pdf.pages : pdf.pages[i] = "text"
  /\ pdf.decision = "ocr"
  /\ ocr.state = "running"

\* C26: partial OCR results are discarded.  A pass in which a processed
\* page failed, or which was interrupted, writes no cache entry; an entry is
\* written only by a pass in which no processed page failed.
C26_PartialNotCached ==
  (extracted # NotExtracted /\ "scan" \in DOMAIN extracted /\ extracted.wrote) =>
    /\ extracted.outcome = "returned"
    /\ \A i \in Processed(extracted.scan, extracted.max_pages) : extracted.scan[i] # "raises"

\* The file has an entry the lookup accepts: a hit with a non-empty text.
Cached(f) ==
  /\ load_from_cache(f).outcome = "returned"
  /\ load_from_cache(f).value # None

AnswerAll == AllResults(retriever, answer.query, answer.top_k)

\* C28: at most one search round contributes to a result.  In every call
\* all_results is empty or the result list of exactly one of the searches
\* made, every other search having found nothing; so the deduplication
\* removes nothing, every returned document is one of that search, and no
\* two returned documents have the same file name.
C28_SingleRound ==
  (Searchable(retriever) /\ AnsweredInt) =>
    /\ \/ AnswerAll = <<>>
       \/ \E i \in DOMAIN AnswerSearches :
            /\ AnswerSearches[i].results = AnswerAll
            /\ \A j \in DOMAIN AnswerSearches : j # i => AnswerSearches[j].results = <<>>
    /\ Unique(AnswerAll, {}) = AnswerAll
    /\ \A j \in DOMAIN answer.value : \E i \in DOMAIN AnswerAll : answer.value[j] = AnswerAll[i]
    /\ \A i, j \in DOMAIN answer.value :
         i # j => answer.value[i].file_name # answer.value[j].file_name

\* A call whose first two rounds found nothing and whose third round
\* returned two documents from its first word.
C28_Witness ==
  /\ Searchable(retriever) /\ AnsweredInt
  /\ Len(AnswerSearches) = 3
  /\ AnswerSearches[3].round = 3
  /\ Len(answer.value) = 2
  /\ answer.value = AnswerSearches[3].results

\* C30: the empty query.  On a retriever with a built index over one or
\* more documents retrieve_relevant_chunks("", k) makes one search only and
\* returns the first min(k, N) documents of the collection, in collection
\* order, each with score 0.5 and match type exact.
C30_EmptyQuery ==
  (Searchable(retriever) /\ AnsweredInt /\ answer.query = <<>>) =>
    /\ Len(AnswerSearches) = 1
    /\ Len(answer.value) = Min(answer.top_k.v, Len(retriever.documents))
    /\ \A i \in DOMAIN answer.value :
         answer.value[i] = Scored(retriever.documents[i], 500, "exact")

=============================================================================
